---- MODULE Spec2Model ----
(***************************************************************************)
(* barrel-optimizer: the Export-Graph Resolver (src/core/analyzer.ts) and  *)
(* the Import Rewriter (src/core/transformer.ts) as state machines.        *)
(*                                                                         *)
(* Abstractions, stated once:                                              *)
(*  - a path is a string; every file of the model lives in one directory,  *)
(*    so path.resolve(dir, "./A") is the string "A" and path.normalize is  *)
(*    the identity on the paths used;                                      *)
(*  - a module specifier is a record [rel, abs]: rel says whether its text *)
(*    starts with ".", abs is path.resolve(currentDir, specifier);         *)
(*  - a file's text is the sequence of its top-level export statements;    *)
(*    a "bad" statement is text the lexer throws on (equally: a file that  *)
(*    stat() finds and readFile() cannot read);                            *)
(*  - a re-export statement lists the exported names (for "Foo as Bar"     *)
(*    that is Bar, the name both the lexer and the regex keep).            *)
(***************************************************************************)
EXTENDS Naturals, Integers, Sequences, FiniteSets, TLC

(***************************************************************************)
(* Bounds of the model                                                     *)
(***************************************************************************)
\* export statements in the whole package, all files together
MaxStmts == 3
\* export statements in the file universe when several packages are analysed
MaxStmtsMany == 2

(***************************************************************************)
(* The file universe                                                       *)
(***************************************************************************)
Names == {"x", "y"}

\* the regular files that exist (fs.stat(...).isFile())
Files == {"E.js", "A.js", "B/index.js"}

Null == "<null>"

SrcE       == [rel |-> TRUE,  abs |-> "E.js"]   \* './E.js'  literal path
SrcA       == [rel |-> TRUE,  abs |-> "A"]      \* './A'     extension fallback
SrcB       == [rel |-> TRUE,  abs |-> "B"]      \* './B'     directory index
SrcMissing == [rel |-> TRUE,  abs |-> "M"]      \* './M'     no such file
SrcBare    == [rel |-> FALSE, abs |-> "react"]  \* 'react'   bare specifier

Sources == {SrcE, SrcA, SrcB, SrcMissing, SrcBare}

SUPPORTED_EXTENSIONS == <<".js", ".mjs", ".cjs", ".ts", ".tsx", ".jsx">>
INDEX_FILES == <<"index.js", "index.mjs", "index.ts", "index.tsx">>

FileExists(filePath) == filePath \in Files

RECURSIVE FirstExisting(_)
FirstExisting(candidates) ==
    IF candidates = <<>> THEN Null
    ELSE IF FileExists(Head(candidates)) THEN Head(candidates)
    ELSE FirstExisting(Tail(candidates))

\* a faulty order that tries the directory index before the extensions
CandidatesIndexFirst(absolutePath) ==
    <<absolutePath>>
    \o [k \in 1..Len(INDEX_FILES) |-> absolutePath \o "/" \o INDEX_FILES[k]]
    \o [k \in 1..Len(SUPPORTED_EXTENSIONS) |-> absolutePath \o SUPPORTED_EXTENSIONS[k]]

\* the paths resolveModulePath passes to fileExists, in the order of its
\* three steps
Candidates(absolutePath) ==
    <<absolutePath>>
    \o [k \in 1..Len(SUPPORTED_EXTENSIONS) |-> absolutePath \o SUPPORTED_EXTENSIONS[k]]
    \o [k \in 1..Len(INDEX_FILES) |-> absolutePath \o "/" \o INDEX_FILES[k]]

\* resolveModulePath(basePath, specifier); specifier.abs stands for
\* path.resolve(basePath, specifier)
ResolveModulePath(specifier) ==
    IF ~specifier.rel THEN Null
    ELSE FirstExisting(Candidates(specifier.abs))

(***************************************************************************)
(* Export statements and the texts of the files                            *)
(***************************************************************************)
DeclStmt(n)      == [k |-> "decl",  names |-> <<n>>, src |-> SrcBare]
ReExpStmt(n, s)  == [k |-> "reexp", names |-> <<n>>, src |-> s]
StarStmt(s)      == [k |-> "star",  names |-> <<>>,  src |-> s]
BadStmt          == [k |-> "bad",   names |-> <<>>,  src |-> SrcBare]

\* the statements a file may hold; a file does not re-export from itself
StmtsOf(f) ==
    LET others == {s \in Sources : ResolveModulePath(s) # f}
    IN  {DeclStmt(n) : n \in Names}
        \cup {ReExpStmt(n, s) : n \in Names, s \in others}
        \cup {StarStmt(s) : s \in others}
        \cup {BadStmt}

Placed == {[file |-> f, stmt |-> st] : f \in Files, st \in UNION {StmtsOf(g) : g \in Files}}

PlacedOk == {p \in Placed : p.stmt \in StmtsOf(p.file)}

\* the placements whose statement parses and whose source, if any, resolves
PlacedResolving ==
    {p \in PlacedOk : /\ p.stmt.k # "bad"
                      /\ p.stmt.k = "decl" \/ ResolveModulePath(p.stmt.src) # Null}

RECURSIVE StmtSets(_, _)
StmtSets(k, pool) ==
    IF k = 0 THEN {{}}
    ELSE LET smaller == StmtSets(k - 1, pool)
         IN  smaller \cup {s \cup {p} : s \in smaller, p \in pool}

\* the textual order of a file's statements: a fixed total order
KindRank(k) == CASE k = "decl" -> 1 [] k = "reexp" -> 2 [] k = "star" -> 3 [] OTHER -> 4
SrcRank(s)  == CASE s = SrcE -> 1 [] s = SrcA -> 2 [] s = SrcB -> 3
                 [] s = SrcMissing -> 4 [] OTHER -> 5
NameRank(ns) == IF ns = <<>> THEN 0 ELSE IF ns[1] = "x" THEN 1 ELSE 2
StmtRank(st) == KindRank(st.k) * 100 + NameRank(st.names) * 10 + SrcRank(st.src)

RECURSIVE TextOf(_)
TextOf(stmts) ==
    IF stmts = {} THEN <<>>
    ELSE LET first == CHOOSE st \in stmts : \A o \in stmts : StmtRank(st) <= StmtRank(o)
         IN  <<first>> \o TextOf(stmts \ {first})

LayoutOf(placed) == [f \in Files |-> TextOf({p.stmt : p \in {q \in placed : q.file = f}})]

\* a file that no other file re-exports from is never read, unless it is an
\* entry file: its text is left empty
Referenced(placed, entries) ==
    \A p \in placed :
        \/ p.file \in entries
        \/ \E q \in placed : /\ q.file # p.file
                             /\ q.stmt.k \in {"reexp", "star"}
                             /\ ResolveModulePath(q.stmt.src) = p.file

Layouts(k, pool, entries) ==
    {LayoutOf(placed) : placed \in {s \in StmtSets(k, pool) : Referenced(s, entries)}}

(***************************************************************************)
(* parseModuleExports: the lexer's export list and the two regex scans     *)
(***************************************************************************)
RECURSIVE Flatten(_)
Flatten(seqs) == IF seqs = <<>> THEN <<>> ELSE Head(seqs) \o Flatten(Tail(seqs))

\* a faulty export list that leaves out the names of `export { N } from`
IsNamedDeclared(st) == st.k = "decl"

IsNamed(st) == st.k \in {"decl", "reexp"}
IsReExp(st) == st.k = "reexp"
IsStar(st)  == st.k = "star"

ParseThrows(text) == \E n \in 1..Len(text) : text[n].k = "bad"

\* es-module-lexer lists every exported name, the names of
\* `export { N } from '...'` included, and no name for `export * from`
ParseModuleExports(text) ==
    LET named == SelectSeq(text, IsNamed)
        reexp == SelectSeq(text, IsReExp)
        star  == SelectSeq(text, IsStar)
    IN  [namedExports  |-> Flatten([n \in 1..Len(named) |-> named[n].names]),
         reExports     |-> [n \in 1..Len(reexp) |->
                              [names |-> reexp[n].names, source |-> reexp[n].src]],
         starReExports |-> [n \in 1..Len(star) |-> star[n].src]]

(***************************************************************************)
(* resolveConditionalExport and resolveLibraryEntryPoint                   *)
(***************************************************************************)
Undef == [t |-> "undef"]
Str(s) == [t |-> "str", v |-> s]
Obj(keys, vals) == [t |-> "obj", keys |-> keys, vals |-> vals]

\* JavaScript truthiness of a string | undefined
Truthy(r) == r.t = "str" /\ r.v # ""

HasKey(obj, key) == \E n \in 1..Len(obj.keys) : obj.keys[n] = key
GetKey(obj, key) == obj.vals[CHOOSE n \in 1..Len(obj.keys) : obj.keys[n] = key]

\* a faulty order that tries the CommonJS conditions first
PRIORITIES_REQUIRE_FIRST == <<"require", "node", "default", "import", "module">>

PRIORITIES == <<"import", "module", "default", "require", "node">>

RECURSIVE ResolveConditionalExport(_)
RECURSIVE TryKeys(_, _, _)
ResolveConditionalExport(value) ==
    IF value.t = "str" THEN value
    ELSE IF value.t = "obj"
         THEN LET byPriority == TryKeys(value, PRIORITIES, FALSE)
              IN  IF Truthy(byPriority) THEN byPriority
                  ELSE TryKeys(value, value.keys, TRUE)
         ELSE Undef

\* one of the two for-loops: the first truthy resolution among `keys`
TryKeys(obj, keys, skipTypes) ==
    IF keys = <<>> THEN Undef
    ELSE LET key == Head(keys)
             resolved == IF HasKey(obj, key) /\ ~(skipTypes /\ key = "types")
                         THEN ResolveConditionalExport(GetKey(obj, key))
                         ELSE Undef
         IN  IF Truthy(resolved) THEN resolved ELSE TryKeys(obj, Tail(keys), skipTypes)

\* package.json of the libraries of the model; the path strings stand for
\* path.resolve(nodeModulesPath, entryPoint)
Libraries == {"pkgE", "pkgA", "pkgNone", "pkgGone"}

PackageJson(libraryName) ==
    CASE libraryName = "pkgE" ->
           [readable |-> TRUE, exports |-> Undef, module |-> Undef, main |-> Str("E.js")]
      [] libraryName = "pkgA" ->
           [readable |-> TRUE,
            exports |-> Obj(<<".">>, <<Obj(<<"types", "import">>,
                                            <<Str("A.d.ts"), Str("A.js")>>)>>),
            module |-> Undef, main |-> Str("E.js")]
      [] libraryName = "pkgGone" ->
           [readable |-> TRUE, exports |-> Undef, module |-> Undef, main |-> Str("gone.js")]
      [] OTHER ->
           [readable |-> FALSE, exports |-> Undef, module |-> Undef, main |-> Undef]

\* `a ?? b`
Coalesce(a, b) == IF a.t = "undef" THEN b ELSE a

\* the block under `if (packageJson.exports)`: entryPoint, or undefined
ExportsEntry(packageJson) ==
    LET exportsField == packageJson.exports
    IN  IF exportsField.t = "str" /\ exportsField.v # "" THEN exportsField
        ELSE IF exportsField.t = "obj"
             THEN IF HasKey(exportsField, ".")
                  THEN ResolveConditionalExport(GetKey(exportsField, "."))
                  ELSE Undef
             ELSE Undef

\* a faulty fallback that prefers main to module
FallbackEntryMainFirst(entryPoint, packageJson) ==
    Coalesce(entryPoint,
      Coalesce(packageJson.main,
        Coalesce(packageJson.module, Str("index.js"))))

\* entryPoint ??= packageJson.module ?? packageJson.main ?? "index.js"
FallbackEntry(entryPoint, packageJson) ==
    Coalesce(entryPoint,
      Coalesce(packageJson.module,
        Coalesce(packageJson.main, Str("index.js"))))

\* path.resolve(nodeModulesPath, entryPoint): the package directory itself
\* for an empty entryPoint
ResolvedEntry(entryPoint) == IF entryPoint.v = "" THEN "." ELSE entryPoint.v

\* the entry file, or Null where the code throws
ResolveLibraryEntryPoint(libraryName) ==
    LET packageJson == PackageJson(libraryName)
        entryPoint == FallbackEntry(ExportsEntry(packageJson), packageJson)
    IN  IF ~packageJson.readable THEN Null
        ELSE IF ~FileExists(ResolvedEntry(entryPoint)) THEN Null
        ELSE ResolvedEntry(entryPoint)

(***************************************************************************)
(* dfsAnalyze as steps on the state of one traversal                       *)
(*                                                                         *)
(* loc.stack   the dfsAnalyze calls in progress, innermost last; a frame   *)
(*             is [file, pc, i, j, ctx]: i and j index the named and the   *)
(*             star re-exports still to process, ctx is the index in       *)
(*             loc.maps of the frame's ctx.importMap                       *)
(* loc.maps    maps[1] is the ImportMap of analyzeLibrary, the others the  *)
(*             tempMaps of the star re-exports in progress                 *)
(* loc.visited ctx.visited                                                 *)
(***************************************************************************)
EmptyMap == [n \in {} |-> Null]

Frame(file, ctx) == [file |-> file, pc |-> "enter", i |-> 1, j |-> 1, ctx |-> ctx]

Top(loc) == loc.stack[Len(loc.stack)]
Pop(loc) == [loc EXCEPT !.stack = SubSeq(loc.stack, 1, Len(loc.stack) - 1)]
SetTop(loc, fr) == [loc EXCEPT !.stack[Len(loc.stack)] = fr]
Push(loc, fr) == [loc EXCEPT !.stack = Append(loc.stack, fr)]

\* a faulty visited check that never finds the path
AlreadyVisitedNever(visitedSet, normalizedPath) == FALSE

\* ctx.visited.has(normalizedPath)
AlreadyVisited(visitedSet, normalizedPath) == normalizedPath \in visitedSet

\* a faulty insertion: importMap.set(name, file) without the has() test
SetAlways(importMap, name, file) ==
    [n \in DOMAIN importMap \cup {name} |->
        IF n = name THEN file ELSE importMap[n]]

\* if (!importMap.has(name)) importMap.set(name, file)
SetIfAbsent(importMap, name, file) ==
    IF name \in DOMAIN importMap THEN importMap
    ELSE [n \in DOMAIN importMap \cup {name} |->
            IF n = name THEN file ELSE importMap[n]]

RECURSIVE BindAll(_, _, _)
BindAll(importMap, names, file) ==
    IF names = <<>> THEN importMap
    ELSE BindAll(SetIfAbsent(importMap, Head(names), file), Tail(names), file)

\* a faulty merge that drops the scratch map
MergeIntoDropped(importMap, tempMap) == importMap

\* for (const [name] of tempMap) if (!importMap.has(name)) importMap.set(...)
MergeInto(importMap, tempMap) ==
    [n \in DOMAIN importMap \cup DOMAIN tempMap |->
        IF n \in DOMAIN importMap THEN importMap[n] ELSE tempMap[n]]

Phases == {"return", "visit", "parse", "reexp", "star", "merge", "starparse", "direct"}

\* a faulty order of the loops: the star re-exports before the named ones
PhaseStarFirst(fsys, loc) ==
    IF loc.stack = <<>> THEN "return"
    ELSE LET fr == Top(loc)
             parsed == ParseModuleExports(fsys[fr.file])
         IN  CASE fr.pc = "enter" -> "visit"
               [] fr.pc = "parse" -> "parse"
               [] fr.pc = "merge" -> "merge"
               [] fr.pc = "starparse" -> "starparse"
               [] OTHER ->
                    IF fr.j <= Len(parsed.starReExports) THEN "star"
                    ELSE IF fr.i <= Len(parsed.reExports) THEN "reexp"
                    ELSE "direct"

\* which step the traversal is at
Phase(fsys, loc) ==
    IF loc.stack = <<>> THEN "return"
    ELSE LET fr == Top(loc)
             parsed == ParseModuleExports(fsys[fr.file])
         IN  CASE fr.pc = "enter" -> "visit"
               [] fr.pc = "parse" -> "parse"
               [] fr.pc = "merge" -> "merge"
               [] fr.pc = "starparse" -> "starparse"
               [] OTHER ->
                    IF fr.i <= Len(parsed.reExports) THEN "reexp"
                    ELSE IF fr.j <= Len(parsed.starReExports) THEN "star"
                    ELSE "direct"

\* a faulty visit that passes the check and leaves the path unmarked
VisitStepUnmarked(loc) ==
    LET fr == Top(loc)
    IN  IF AlreadyVisited(loc.visited, fr.file) THEN Pop(loc)
        ELSE [SetTop(loc, [fr EXCEPT !.pc = "parse"])
                EXCEPT !.started = @ + 1]

\* a faulty mark that replaces the visited set by the path
VisitStepForgetful(loc) ==
    LET fr == Top(loc)
    IN  IF AlreadyVisited(loc.visited, fr.file) THEN Pop(loc)
        ELSE [SetTop(loc, [fr EXCEPT !.pc = "parse"])
                EXCEPT !.visited = {fr.file},
                       !.started = @ + 1]

\* the visited check and mark
VisitStep(loc) ==
    LET fr == Top(loc)
    IN  IF AlreadyVisited(loc.visited, fr.file) THEN Pop(loc)
        ELSE [SetTop(loc, [fr EXCEPT !.pc = "parse"])
                EXCEPT !.visited = @ \cup {fr.file},
                       !.started = @ + 1]

\* a faulty catch that gives up the whole traversal
ParseFailedAborts(loc) == [loc EXCEPT !.stack = <<>>]

\* catch (error) { console.warn(...); return; }
ParseFailed(loc) == Pop(loc)

\* parsedExports = await parseModuleExports(normalizedPath)
ParseStep(fsys, loc) ==
    LET fr == Top(loc)
        counted == [loc EXCEPT !.parsed[fr.file] = @ + 1]
    IN  IF ParseThrows(fsys[fr.file]) THEN ParseFailed(counted)
        ELSE SetTop(counted, [fr EXCEPT !.pc = "body"])

\* one iteration of the loop over parsedExports.reExports
ReExportStep(fsys, loc) ==
    LET fr == Top(loc)
        reExport == ParseModuleExports(fsys[fr.file]).reExports[fr.i]
        resolvedSource == ResolveModulePath(reExport.source)
        next == SetTop(loc, [fr EXCEPT !.i = @ + 1])
    IN  IF resolvedSource = Null THEN next
        ELSE Push([next EXCEPT !.maps[fr.ctx] = BindAll(@, reExport.names, resolvedSource)],
                  Frame(resolvedSource, fr.ctx))

\* one iteration of the loop over parsedExports.starReExports, up to the
\* recursive call with tempCtx
StarStep(fsys, loc) ==
    LET fr == Top(loc)
        starSource == ParseModuleExports(fsys[fr.file]).starReExports[fr.j]
        resolvedSource == ResolveModulePath(starSource)
    IN  IF resolvedSource = Null THEN SetTop(loc, [fr EXCEPT !.j = @ + 1])
        ELSE Push([SetTop(loc, [fr EXCEPT !.pc = "merge"])
                     EXCEPT !.maps = Append(@, EmptyMap)],
                  Frame(resolvedSource, Len(loc.maps) + 1))

\* after the recursive call: merge tempMap into ctx.importMap
MergeStep(loc) ==
    LET fr == Top(loc)
        tempMap == loc.maps[Len(loc.maps)]
        merged == MergeInto(loc.maps[fr.ctx], tempMap)
    IN  [SetTop(loc, [fr EXCEPT !.pc = "starparse"])
           EXCEPT !.maps = [SubSeq(loc.maps, 1, Len(loc.maps) - 1)
                              EXCEPT ![fr.ctx] = merged]]

\* a faulty star re-export that leaves out the parse of the star source
StarParseStepSkipped(fsys, loc) ==
    LET fr == Top(loc)
    IN  SetTop(loc, [fr EXCEPT !.pc = "body", !.j = @ + 1])

\* the star source's own direct exports: a second parse of that file
StarParseStep(fsys, loc) ==
    LET fr == Top(loc)
        starSource == ParseModuleExports(fsys[fr.file]).starReExports[fr.j]
        resolvedSource == ResolveModulePath(starSource)
        counted == [loc EXCEPT !.starParsed[resolvedSource] = @ + 1]
        next == SetTop(counted, [fr EXCEPT !.pc = "body", !.j = @ + 1])
    IN  IF ParseThrows(fsys[resolvedSource]) THEN next
        ELSE [next EXCEPT !.maps[fr.ctx] =
                BindAll(@, ParseModuleExports(fsys[resolvedSource]).namedExports,
                        resolvedSource)]

\* the file's own named exports, then return
DirectStep(fsys, loc) ==
    LET fr == Top(loc)
        parsed == ParseModuleExports(fsys[fr.file])
    IN  Pop([loc EXCEPT !.maps[fr.ctx] = BindAll(@, parsed.namedExports, fr.file)])

\* the step the traversal takes next
DfsStep(fsys, loc) ==
    LET ph == Phase(fsys, loc)
        new == CASE ph = "visit" -> VisitStep(loc)
                 [] ph = "parse" -> ParseStep(fsys, loc)
                 [] ph = "reexp" -> ReExportStep(fsys, loc)
                 [] ph = "star" -> StarStep(fsys, loc)
                 [] ph = "merge" -> MergeStep(loc)
                 [] ph = "starparse" -> StarParseStep(fsys, loc)
                 [] ph = "direct" -> DirectStep(fsys, loc)
                 [] OTHER -> loc
    IN  IF ph = "return" THEN loc ELSE [new EXCEPT !.steps = @ + 1]

(***************************************************************************)
(* analyzeLibrary and analyzeLibraries                                     *)
(*                                                                         *)
(* libs     the libraryNames argument; traversal p analyses libs[p]        *)
(* status   "init", "running", "done" (the promise of analyzeLibrary is    *)
(*          fulfilled) or "failed" (it is rejected)                        *)
(* trav     the state of each traversal (the fields of loc but visited,    *)
(*          and ref, the Set object its ctx.visited refers to)             *)
(* visited  the Set objects                                                *)
(* returned the ImportMap each analyzeLibrary call returned                *)
(* batch    the promise of analyzeLibraries: "pending", "resolved" with    *)
(*          results, or "rejected"                                         *)
(***************************************************************************)
VARIABLES fs, libs, status, trav, visited, returned, batch, results

avars == <<fs, libs, status, trav, visited, returned, batch, results>>

Procs == 1..Len(libs)

\* a faulty context: one Set shared by all the analyzeLibrary calls
NewVisitedSetShared(p) == 1

\* visited: new Set() -- every analyzeLibrary call makes its own
NewVisitedSet(p) == p

Idle ==
    [stack |-> <<>>, maps |-> <<EmptyMap>>,
     parsed |-> [f \in Files |-> 0], starParsed |-> [f \in Files |-> 0],
     started |-> 0, steps |-> 0, ref |-> 0]

\* ctx of analyzeLibrary and the call dfsAnalyze(entryPoint, ctx)
NewTraversal(entryPoint, ref) ==
    [Idle EXCEPT !.stack = <<Frame(entryPoint, 1)>>, !.ref = ref]

WithVisited(t, visitedSet) ==
    [stack |-> t.stack, maps |-> t.maps, parsed |-> t.parsed,
     starParsed |-> t.starParsed, started |-> t.started, steps |-> t.steps,
     ref |-> t.ref, visited |-> visitedSet]

WithoutVisited(loc) ==
    [stack |-> loc.stack, maps |-> loc.maps, parsed |-> loc.parsed,
     starParsed |-> loc.starParsed, started |-> loc.started, steps |-> loc.steps,
     ref |-> loc.ref]

Loc(p) == WithVisited(trav[p], visited[trav[p].ref])

\* traversal p takes its next step
Advance(p) ==
    LET new == DfsStep(fs, Loc(p))
    IN  /\ trav' = [trav EXCEPT ![p] = WithoutVisited(new)]
        /\ visited' = [visited EXCEPT ![trav[p].ref] = new.visited]
        /\ UNCHANGED <<fs, libs, status, returned, batch, results>>

At(p, phase) == status[p] = "running" /\ Phase(fs, Loc(p)) = phase

\* new Map(results): a later entry of the same name replaces an earlier one
NewMap(names, values) ==
    [name \in {names[n] : n \in 1..Len(names)} |->
        values[CHOOSE n \in 1..Len(names) :
                  /\ names[n] = name
                  /\ \A m \in 1..Len(names) : names[m] = name => m <= n]]

InitWith(layouts, libraryNames) ==
    /\ fs \in layouts
    /\ libs \in libraryNames
    /\ status = [p \in Procs |-> "init"]
    /\ trav = [p \in Procs |-> Idle]
    /\ visited = [p \in Procs |-> {}]
    /\ returned = [p \in Procs |-> EmptyMap]
    /\ batch = "pending"
    /\ results = EmptyMap

\* analyzeLibrary up to the call of dfsAnalyze
Start(p) ==
    /\ status[p] = "init"
    /\ LET entryPoint == ResolveLibraryEntryPoint(libs[p])
       IN  IF entryPoint = Null
           THEN /\ status' = [status EXCEPT ![p] = "failed"]
                /\ batch' = IF batch = "pending" THEN "rejected" ELSE batch
                /\ UNCHANGED trav
           ELSE /\ status' = [status EXCEPT ![p] = "running"]
                /\ trav' = [trav EXCEPT ![p] = NewTraversal(entryPoint, NewVisitedSet(p))]
                /\ UNCHANGED batch
    /\ UNCHANGED <<fs, libs, visited, returned, results>>

Visit(p)     == At(p, "visit") /\ Advance(p)
Parse(p)     == At(p, "parse") /\ Advance(p)
ReExport(p)  == At(p, "reexp") /\ Advance(p)
Star(p)      == At(p, "star") /\ Advance(p)
Merge(p)     == At(p, "merge") /\ Advance(p)
StarParse(p) == At(p, "starparse") /\ Advance(p)
Direct(p)    == At(p, "direct") /\ Advance(p)

\* return ctx.importMap
Return(p) ==
    /\ At(p, "return")
    /\ status' = [status EXCEPT ![p] = "done"]
    /\ returned' = [returned EXCEPT ![p] = trav[p].maps[1]]
    /\ UNCHANGED <<fs, libs, trav, visited, batch, results>>

\* Promise.all fulfilled: return new Map(results)
Collect ==
    /\ batch = "pending"
    /\ \A p \in Procs : status[p] = "done"
    /\ batch' = "resolved"
    /\ results' = NewMap(libs, returned)
    /\ UNCHANGED <<fs, libs, status, trav, visited, returned>>

(***************************************************************************)
(* The Import Rewriter (src/core/transformer.ts)                           *)
(*                                                                         *)
(* Source text is a sequence of statements.  An import statement of the    *)
(* text is [t |-> "import", layout, quote, typeOnly, specifiers, source]:  *)
(* layout ("tidy" or "loose") and quote are the formatting the parser      *)
(* drops or keeps as `raw`; a "garbage" statement is text parseSync throws *)
(* on.  An absolute path is [dirs, stem, ext]: the directory segments, and *)
(* the last segment split at its extension.                                *)
(***************************************************************************)
MaxItems == 2

DefaultSpec(local) ==
    [type |-> "ImportDefaultSpecifier", local |-> local, imported |-> Null,
     isTypeOnly |-> FALSE]
NamespaceSpec(local) ==
    [type |-> "ImportNamespaceSpecifier", local |-> local, imported |-> Null,
     isTypeOnly |-> FALSE]
\* { imported as local }; imported is Null for { local }
NamedSpec(imported, local, isTypeOnly) ==
    [type |-> "ImportSpecifier", local |-> local, imported |-> imported,
     isTypeOnly |-> isTypeOnly]

ImportText(layout, quote, typeOnly, specifiers, source) ==
    [t |-> "import", layout |-> layout, quote |-> quote, typeOnly |-> typeOnly,
     specifiers |-> specifiers, source |-> source]
OtherText(layout) ==
    [t |-> "other", layout |-> layout, quote |-> "", typeOnly |-> FALSE,
     specifiers |-> <<>>, source |-> ""]
GarbageText ==
    [t |-> "garbage", layout |-> "loose", quote |-> "", typeOnly |-> FALSE,
     specifiers |-> <<>>, source |-> ""]

\* parseSync throws
ParseSyncThrows(code) == \E n \in 1..Len(code) : code[n].t = "garbage"

\* parseSync: the module body; span is the place of the node in the text
ParseSync(code) ==
    [n \in 1..Len(code) |->
        [type |-> IF code[n].t = "import" THEN "ImportDeclaration" ELSE "Statement",
         span |-> n,
         specifiers |-> code[n].specifiers,
         source |-> [value |-> code[n].source, raw |-> code[n].quote],
         typeOnly |-> code[n].typeOnly]]

\* printSync: every statement is laid out anew; a string literal is printed
\* from its raw text
PrintSync(body) ==
    [n \in 1..Len(body) |->
        [t |-> IF body[n].type = "ImportDeclaration" THEN "import" ELSE "other",
         layout |-> "tidy",
         quote |-> body[n].source.raw,
         typeOnly |-> body[n].typeOnly,
         specifiers |-> body[n].specifiers,
         source |-> body[n].source.value]]

(***************************************************************************)
(* absoluteToPackagePath                                                   *)
(***************************************************************************)
Path(dirs, stem, ext) == [dirs |-> dirs, stem |-> stem, ext |-> ext]

\* first segments that start with "@"
ScopeSegments == {"@mui", "@test"}
StartsWithAt(segment) == segment \in ScopeSegments

DIST_FOLDERS == {"dist", "esm", "cjs", "lib", "build", "es", "umd", "module"}
SOURCE_EXTENSIONS == {".js", ".mjs", ".cjs", ".ts", ".tsx", ".jsx"}

RECURSIVE Join(_)
Join(segments) ==
    IF segments = <<>> THEN ""
    ELSE IF Len(segments) = 1 THEN segments[1]
    ELSE segments[1] \o "/" \o Join(Tail(segments))

DropLast(segments) == SubSeq(segments, 1, Len(segments) - 1)
DropFirst(segments, k) == SubSeq(segments, k + 1, Len(segments))

\* directory names that end with the text node_modules
NodeModulesNames == {"node_modules", "old_node_modules"}
EndsWithNodeModules(segment) == segment \in NodeModulesNames

\* normalizedPath.lastIndexOf("node_modules/"), 0 for -1: the text is found
\* wherever it stands, also at the end of a longer directory name
NodeModulesIndex(dirs) ==
    LET marks == {n \in 1..Len(dirs) : EndsWithNodeModules(dirs[n])}
    IN  IF marks = {} THEN 0 ELSE CHOOSE n \in marks : \A m \in marks : m <= n

Scoped(segments) == StartsWithAt(segments[1])

\* packageName
PackageName(segments) ==
    IF Scoped(segments)
    THEN segments[1] \o "/" \o (IF Len(segments) >= 2 THEN segments[2] ELSE "")
    ELSE segments[1]

\* pathAfterPackage
PathAfterPackage(segments) == DropFirst(segments, IF Scoped(segments) THEN 2 ELSE 1)

\* remove distribution folder if present
StripDistFolder(pathAfterPackage) ==
    IF Len(pathAfterPackage) > 0 /\ pathAfterPackage[1] \in DIST_FOLDERS
    THEN Tail(pathAfterPackage)
    ELSE pathAfterPackage

\* lastSegment.replace(/\.(js|mjs|cjs|ts|tsx|jsx)$/, "")
NameWithoutExt(stem, ext) == IF ext \in SOURCE_EXTENSIONS THEN stem ELSE stem \o ext

\* if the file is an index file, remove it
DropIndex(pathAfterPackage) ==
    IF pathAfterPackage[Len(pathAfterPackage)] = "index"
    THEN DropLast(pathAfterPackage)
    ELSE pathAfterPackage

\* Button/Button -> Button
CollapseDirFile(pathAfterPackage) ==
    IF Len(pathAfterPackage) >= 2
       /\ pathAfterPackage[Len(pathAfterPackage) - 1] = pathAfterPackage[Len(pathAfterPackage)]
    THEN DropLast(pathAfterPackage)
    ELSE pathAfterPackage

\* the block under `if (pathAfterPackage.length > 0)`
StripFileName(pathAfterPackage, nameWithoutExt) ==
    IF Len(pathAfterPackage) = 0 THEN pathAfterPackage
    ELSE CollapseDirFile(DropIndex(
           [pathAfterPackage EXCEPT ![Len(pathAfterPackage)] = nameWithoutExt]))

\* construct the final import path
JoinPackagePath(packageName, pathAfterPackage) ==
    IF Len(pathAfterPackage) = 0 THEN packageName
    ELSE packageName \o "/" \o Join(pathAfterPackage)

\* the segments of afterNodeModules
AfterNodeModules(absolutePath) ==
    DropFirst(Append(absolutePath.dirs, absolutePath.stem \o absolutePath.ext),
              NodeModulesIndex(absolutePath.dirs))

PackagePathOf(segments, nameWithoutExt) ==
    JoinPackagePath(PackageName(segments),
                    StripFileName(StripDistFolder(PathAfterPackage(segments)),
                                  nameWithoutExt))

AbsoluteToPackagePath(absolutePath) ==
    IF NodeModulesIndex(absolutePath.dirs) = 0
    THEN Join(Append(absolutePath.dirs, absolutePath.stem \o absolutePath.ext))
    ELSE PackagePathOf(AfterNodeModules(absolutePath),
                       NameWithoutExt(absolutePath.stem, absolutePath.ext))

(***************************************************************************)
(* transformImportDeclaration                                              *)
(***************************************************************************)
\* a faulty test that finds no namespace specifier
HasNamespaceSpecifierNever(node) == FALSE

HasNamespaceSpecifier(node) ==
    \E n \in 1..Len(node.specifiers) :
        node.specifiers[n].type = "ImportNamespaceSpecifier"

\* a faulty test that finds no default specifier
HasDefaultSpecifierNever(node) == FALSE

HasDefaultSpecifier(node) ==
    \E n \in 1..Len(node.specifiers) :
        node.specifiers[n].type = "ImportDefaultSpecifier"

IsDefaultSpecifier(specifier) == specifier.type = "ImportDefaultSpecifier"

\* a faulty test that takes a default specifier for a named one
IsImportSpecifierOrDefault(specifier) == specifier.type # "ImportNamespaceSpecifier"

IsImportSpecifier(specifier) == specifier.type = "ImportSpecifier"

\* { imported: spec.imported?.value ?? local, local }
GetNamedSpecifiers(node) ==
    LET named == SelectSeq(node.specifiers, IsImportSpecifier)
    IN  [n \in 1..Len(named) |->
            [imported |-> IF named[n].imported = Null THEN named[n].local
                          ELSE named[n].imported,
             local |-> named[n].local]]

\* a faulty construction that binds the imported name and drops the alias
CreateNamedImportUnaliased(imported, local, source) ==
    [type |-> "ImportDeclaration",
     span |-> 0,
     specifiers |-> <<[type |-> "ImportSpecifier",
                       local |-> imported,
                       imported |-> Null,
                       isTypeOnly |-> FALSE]>>,
     source |-> [value |-> source, raw |-> "\""],
     typeOnly |-> FALSE]

CreateNamedImport(imported, local, source) ==
    [type |-> "ImportDeclaration",
     span |-> 0,
     specifiers |-> <<[type |-> "ImportSpecifier",
                       local |-> local,
                       imported |-> IF imported # local THEN imported ELSE Null,
                       isTypeOnly |-> FALSE]>>,
     source |-> [value |-> source, raw |-> "\""],
     typeOnly |-> FALSE]

\* a faulty lookup that takes a name for resolved only when it is bound to a
\* file of the package the statement imports from
RECURSIVE RewriteNamedOwnPackage(_, _, _, _)
RewriteNamedOwnPackage(namedSpecifiers, source, importMap, acc) ==
    IF namedSpecifiers = <<>> THEN acc
    ELSE LET imported == Head(namedSpecifiers).imported
             local == Head(namedSpecifiers).local
             importPath == AbsoluteToPackagePath(importMap[imported])
             resolved == /\ imported \in DOMAIN importMap
                         /\ importMap[imported].dirs[Len(importMap[imported].dirs)] = source
         IN  IF ~resolved
             THEN RewriteNamedOwnPackage(Tail(namedSpecifiers), source, importMap,
                    [acc EXCEPT !.imports = Append(@, CreateNamedImport(imported, local, source)),
                                !.warns = @ + 1])
             ELSE RewriteNamedOwnPackage(Tail(namedSpecifiers), source, importMap,
                    [acc EXCEPT !.imports = Append(@, CreateNamedImport(imported, local, importPath)),
                                !.rewrites = Append(@, imported \o " → " \o importPath)])

\* the loop over namedSpecifiers; acc is [imports, rewrites, warns]
RECURSIVE RewriteNamed(_, _, _, _)
RewriteNamed(namedSpecifiers, source, importMap, acc) ==
    IF namedSpecifiers = <<>> THEN acc
    ELSE LET imported == Head(namedSpecifiers).imported
             local == Head(namedSpecifiers).local
             \* resolvedPath = config.importMap.get(imported)
             resolved == imported \in DOMAIN importMap
             importPath == AbsoluteToPackagePath(importMap[imported])
         IN  IF ~resolved
             THEN RewriteNamed(Tail(namedSpecifiers), source, importMap,
                    [acc EXCEPT !.imports = Append(@, CreateNamedImport(imported, local, source)),
                                !.warns = @ + 1])
             ELSE RewriteNamed(Tail(namedSpecifiers), source, importMap,
                    [acc EXCEPT !.imports = Append(@, CreateNamedImport(imported, local, importPath)),
                                \* `${imported} → ${importPath}`
                                !.rewrites = Append(@, imported \o " → " \o importPath)])

\* a faulty test that takes every import for a barrel import
IsBarrelImportAlways(source, targetLibraries) == TRUE

\* config.targetLibraries.some((lib) => source === lib)
IsBarrelImport(source, targetLibraries) == \E lib \in targetLibraries : source = lib

\* a faulty report that counts a statement without a resolved name
ReportOptimizedAlways(result, source, optimizedRewrites) ==
    [result EXCEPT !.optimized = Append(@, [original |-> source,
                                            rewrites |-> optimizedRewrites]),
                   !.transformed = TRUE]

\* if (optimizedRewrites.length > 0) { result.optimized.push(...); ... }
ReportOptimized(result, source, optimizedRewrites) ==
    IF Len(optimizedRewrites) > 0
    THEN [result EXCEPT !.optimized = Append(@, [original |-> source,
                                                 rewrites |-> optimizedRewrites]),
                        !.transformed = TRUE]
    ELSE result

\* [changed, imports, result, warns, debugs]: changed is FALSE where the
\* code returns null; result is the TransformResult the call has written to
TransformImportDeclaration(node, config, result) ==
    LET source == node.source.value
        isBarrelImport == IsBarrelImport(source, config.targetLibraries)
        unchanged == [changed |-> FALSE, imports |-> <<>>, result |-> result,
                      warns |-> 0, debugs |-> 0]
        namedSpecifiers == GetNamedSpecifiers(node)
        defaultImport ==
            [type |-> "ImportDeclaration",
             span |-> 0,
             specifiers |-> SelectSeq(node.specifiers, IsDefaultSpecifier),
             source |-> node.source,
             typeOnly |-> node.typeOnly]
        acc == RewriteNamed(namedSpecifiers, source, config.importMap,
                 [imports |-> IF HasDefaultSpecifier(node) THEN <<defaultImport>> ELSE <<>>,
                  rewrites |-> <<>>,
                  warns |-> 0])
    IN  IF ~isBarrelImport THEN unchanged
        ELSE IF HasNamespaceSpecifier(node)
        THEN [unchanged EXCEPT
                !.warns = 1,
                !.result.skipped = Append(@,
                    [source |-> source,
                     reason |-> "Namespace import (import * as) detected"])]
        ELSE IF Len(node.specifiers) = 0
        THEN [unchanged EXCEPT
                !.debugs = 1,
                !.result.skipped = Append(@,
                    [source |-> source,
                     reason |-> "Side-effect import (no specifiers)"])]
        ELSE IF Len(namedSpecifiers) = 0
        THEN [unchanged EXCEPT !.debugs = 1]
        ELSE [changed |-> TRUE,
              imports |-> acc.imports,
              result |-> ReportOptimized(result, source, acc.rewrites),
              warns |-> acc.warns,
              debugs |-> 0]

\* the package a path lies in: the first node_modules/ segment decides
LibraryOf(path) ==
    LET all == Append(path.dirs, path.stem \o path.ext)
        marks == {n \in 1..Len(path.dirs) : EndsWithNodeModules(path.dirs[n])}
        first == CHOOSE n \in marks : \A m \in marks : n <= m
    IN  IF marks = {} THEN Null
        ELSE IF StartsWithAt(all[first + 1]) /\ Len(all) >= first + 2
             THEN all[first + 1] \o "/" \o all[first + 2]
             ELSE all[first + 1]

InferTargetLibraries(importMap) ==
    {LibraryOf(importMap[n]) : n \in DOMAIN importMap} \ {Null}

(***************************************************************************)
(* transformCode                                                           *)
(*                                                                         *)
(* input   the arguments: code, importMap, targetLibraries                 *)
(* tc      the locals of the call: pc, ast (the module body), newBody,     *)
(*         idx (the item the loop is at), hasChanges, result, the numbers  *)
(*         of logger.warn and logger.debug calls made, and pass: 2 when    *)
(*         the call reads the text an earlier call on the file returned    *)
(* output  the TransformResult returned, once tc.pc = "done"               *)
(***************************************************************************)
VARIABLES input, tc, output

rvars == <<input, tc, output>>

\* a faulty result that starts from an empty text
NewResultEmpty(code) ==
    [code |-> <<>>, transformed |-> FALSE, skipped |-> <<>>, optimized |-> <<>>]

\* result = { code, transformed: false, skipped: [], optimized: [] }
NewResult(code) ==
    [code |-> code, transformed |-> FALSE, skipped |-> <<>>, optimized |-> <<>>]

NoInput ==
    [code |-> <<>>, importMap |-> EmptyMap,
     targetLibraries |-> [given |-> FALSE, libs |-> {}]]

TcIdle ==
    [pc |-> "idle", ast |-> <<>>, newBody |-> <<>>, idx |-> 1, hasChanges |-> FALSE,
     result |-> NewResult(<<>>), warns |-> 0, debugs |-> 0, pass |-> 1]

\* targetLibraries ?? inferTargetLibraries(importMap)
Targets(in) ==
    IF ~in.targetLibraries.given THEN InferTargetLibraries(in.importMap)
    ELSE in.targetLibraries.libs

Config(in) == [importMap |-> in.importMap, targetLibraries |-> Targets(in)]

\* a faulty catch of parseSync that reports nothing
ParseFailureSilent(result, warns) == [result |-> result, warns |-> warns]

\* a faulty catch of printSync that returns result as it stands
PrintFailureKeepsFlag(result, warns) == [result |-> result, warns |-> warns + 1]

\* catch of parseSync: logger.warn(...); return result
ParseFailure(result, warns) == [result |-> result, warns |-> warns + 1]

\* catch of printSync: logger.warn(...); return { ...result, transformed: false }
PrintFailure(result, warns) ==
    [result |-> [result EXCEPT !.transformed = FALSE], warns |-> warns + 1]

\* the statements of the model's source texts
StatementMenu ==
    {GarbageText,
     OtherText("loose"),
     ImportText("tidy", "'", FALSE,
                <<NamedSpec(Null, "Button", FALSE), NamedSpec(Null, "Input", FALSE)>>, "pkg"),
     ImportText("loose", "\"", FALSE,
                <<NamedSpec("Button", "B", FALSE), NamedSpec(Null, "Unknown", FALSE)>>, "pkg"),
     ImportText("tidy", "'", FALSE, <<NamedSpec(Null, "Unknown", FALSE)>>, "pkg"),
     ImportText("tidy", "'", FALSE, <<NamespaceSpec("P")>>, "pkg"),
     ImportText("tidy", "'", FALSE, <<>>, "pkg"),
     ImportText("tidy", "'", FALSE, <<DefaultSpec("D")>>, "pkg"),
     ImportText("tidy", "'", FALSE,
                <<DefaultSpec("D"), NamedSpec(Null, "Button", FALSE)>>, "pkg"),
     ImportText("tidy", "\"", FALSE, <<NamedSpec(Null, "Button", FALSE)>>, "pkg/Button"),
     ImportText("tidy", "'", TRUE, <<NamedSpec(Null, "T", FALSE)>>, "pkg"),
     ImportText("tidy", "'", FALSE,
                <<NamedSpec(Null, "T", TRUE), NamedSpec(Null, "Input", FALSE)>>, "pkg"),
     ImportText("tidy", "'", FALSE, <<NamedSpec(Null, "Input", FALSE)>>, "other")}

RECURSIVE Texts(_)
Texts(k) ==
    IF k = 0 THEN {<<>>}
    ELSE LET shorter == Texts(k - 1)
         IN  shorter \cup {Append(t, st) : t \in shorter, st \in StatementMenu}

MapPkg ==
    [n \in {"Button", "Input", "T"} |->
        CASE n = "Button" -> Path(<<"root", "node_modules", "pkg", "dist">>, "Button", ".js")
          [] n = "Input" -> Path(<<"root", "node_modules", "pkg", "esm", "Input">>, "index", ".js")
          [] OTHER -> Path(<<"root", "node_modules", "pkg", "lib">>, "types", ".ts")]

MapTwo ==
    [n \in {"Button", "Input"} |->
        CASE n = "Button" ->
               Path(<<"root", "node_modules", "@mui", "material", "esm", "Button">>,
                    "Button", ".js")
          [] OTHER -> Path(<<"root", "node_modules", "other">>, "Input", ".mjs")]

\* a name exported by the index file at the root of a package
MapRoot ==
    [n \in {"Button"} |-> Path(<<"root", "node_modules", "other">>, "index", ".js")]

ImportMaps == {EmptyMap, MapPkg, MapTwo, MapRoot}

\* targetLibraries is [given, libs]: given is FALSE when the argument is left out
TargetChoices ==
    {[given |-> FALSE, libs |-> {}],
     [given |-> TRUE, libs |-> {"pkg"}],
     [given |-> TRUE, libs |-> {"pkg", "other"}]}

TcInit ==
    /\ input \in [code : Texts(MaxItems), importMap : ImportMaps,
                  targetLibraries : TargetChoices]
    /\ tc = [TcIdle EXCEPT !.pc = "start", !.result = NewResult(input.code)]
    /\ output = NewResult(<<>>)

TcNone ==
    /\ input = NoInput
    /\ tc = TcIdle
    /\ output = NewResult(<<>>)

\* ast = parseSync(code, ...)
TcParse ==
    /\ tc.pc = "start"
    /\ IF ParseSyncThrows(input.code)
       THEN LET failed == ParseFailure(tc.result, tc.warns)
            IN  /\ tc' = [tc EXCEPT !.pc = "done", !.warns = failed.warns]
                /\ output' = failed.result
       ELSE /\ tc' = [tc EXCEPT !.pc = "loop", !.ast = ParseSync(input.code)]
            /\ UNCHANGED output
    /\ UNCHANGED <<input, avars>>

\* a faulty push that puts the new imports at the head of the body
PushImportsFirst(newBody, transformed) == transformed \o newBody

\* newBody.push(...transformed)
PushImports(newBody, transformed) == newBody \o transformed

\* one iteration of the loop over ast.body
TcItem ==
    /\ tc.pc = "loop"
    /\ tc.idx <= Len(tc.ast)
    /\ LET item == tc.ast[tc.idx]
           transformed == TransformImportDeclaration(item, Config(input), tc.result)
       IN  IF item.type = "ImportDeclaration" /\ transformed.changed
           THEN tc' = [tc EXCEPT !.idx = @ + 1,
                                 !.newBody = PushImports(@, transformed.imports),
                                 !.hasChanges = TRUE,
                                 !.result = transformed.result,
                                 !.warns = @ + transformed.warns,
                                 !.debugs = @ + transformed.debugs]
           ELSE IF item.type = "ImportDeclaration"
           THEN tc' = [tc EXCEPT !.idx = @ + 1,
                                 !.newBody = Append(@, item),
                                 !.result = transformed.result,
                                 !.warns = @ + transformed.warns,
                                 !.debugs = @ + transformed.debugs]
           ELSE tc' = [tc EXCEPT !.idx = @ + 1, !.newBody = Append(@, item)]
    /\ UNCHANGED <<input, output, avars>>

\* if (!hasChanges) return result
TcUnchanged ==
    /\ tc.pc = "loop"
    /\ tc.idx > Len(tc.ast)
    /\ ~tc.hasChanges
    /\ tc' = [tc EXCEPT !.pc = "done"]
    /\ output' = tc.result
    /\ UNCHANGED <<input, avars>>

\* ast.body = newBody; printSync(ast, ...) returns or throws
TcPrint ==
    /\ tc.pc = "loop"
    /\ tc.idx > Len(tc.ast)
    /\ tc.hasChanges
    /\ \E printed \in BOOLEAN :
          IF printed
          THEN /\ tc' = [tc EXCEPT !.pc = "done", !.ast = tc.newBody,
                                   !.result.code = PrintSync(tc.newBody),
                                   !.result.transformed = TRUE]
               /\ output' = tc'.result
          ELSE LET failed == PrintFailure(tc.result, tc.warns)
               IN  /\ tc' = [tc EXCEPT !.pc = "printfailed", !.ast = tc.newBody,
                                       !.warns = failed.warns]
                   /\ output' = failed.result
    /\ UNCHANGED <<input, avars>>

\* the tool run a second time on the file: the text it reads is the code the
\* first call returned (written back when transformed, else left as it was).
\* After a first call whose printSync threw, the file is the input text and a
\* second call is a first call over again: that run is left out.
TcAgain ==
    /\ tc.pc = "done"
    /\ tc.pass = 1
    /\ input' = [input EXCEPT !.code = output.code]
    /\ tc' = [TcIdle EXCEPT !.pc = "start", !.result = NewResult(output.code), !.pass = 2]
    /\ output' = NewResult(<<>>)
    /\ UNCHANGED avars

TcNext ==
    \/ TcParse
    \/ TcItem
    \/ TcUnchanged
    \/ TcPrint
    \/ TcAgain

ANext ==
    \/ \E p \in Procs : Start(p)
    \/ \E p \in Procs : Visit(p)
    \/ \E p \in Procs : Parse(p)
    \/ \E p \in Procs : ReExport(p)
    \/ \E p \in Procs : Star(p)
    \/ \E p \in Procs : Merge(p)
    \/ \E p \in Procs : StarParse(p)
    \/ \E p \in Procs : Direct(p)
    \/ \E p \in Procs : Return(p)
    \/ Collect

(***************************************************************************)
(* One call of absoluteToPackagePath                                       *)
(*                                                                         *)
(* path  the argument, its separators normalized                           *)
(* ap    the locals of the call: pc, nodeModulesIndex, segments,           *)
(*       packageName, pathAfterPackage, and ret, the string returned once  *)
(*       ap.pc = "done"                                                    *)
(***************************************************************************)
VARIABLES path, ap

pvars == <<path, ap>>

MaxDirs == 2

ApIdle ==
    [pc |-> "idle", nodeModulesIndex |-> 0, segments |-> <<>>, packageName |-> "",
     pathAfterPackage |-> <<>>, ret |-> ""]

NoPath == Path(<<>>, "", "")

\* the directories above the package
PrefixMenu ==
    {<<"root">>,
     <<"root", "node_modules">>,
     <<"root", "node_modules", "host", "node_modules">>,
     <<"root", "old_node_modules">>}

PackageMenu == {<<"pkg">>, <<"@mui", "material">>}

\* the directories inside the package
DirMenu == {"esm", "lib", "Button", "styles", "old_node_modules"}

RECURSIVE Dirs(_)
Dirs(k) ==
    IF k = 0 THEN {<<>>}
    ELSE LET shorter == Dirs(k - 1)
         IN  shorter \cup {Append(d, name) : d \in shorter, name \in DirMenu}

StemMenu == {"Button", "index", "styles"}
ExtMenu == {".js", ".css", ""}

PathMenu ==
    {Path(prefix \o package \o dirs, stem, ext) :
        prefix \in PrefixMenu, package \in PackageMenu, dirs \in Dirs(MaxDirs),
        stem \in StemMenu, ext \in ExtMenu}

ApInit ==
    /\ path \in PathMenu
    /\ ap = [ApIdle EXCEPT !.pc = "start"]

ApNone ==
    /\ path = NoPath
    /\ ap = ApIdle

\* nodeModulesIndex; return normalizedPath, or afterNodeModules.split("/")
ApLocate ==
    /\ ap.pc = "start"
    /\ LET nodeModulesIndex == NodeModulesIndex(path.dirs)
       IN  IF nodeModulesIndex = 0
           THEN ap' = [ap EXCEPT !.pc = "done",
                                 !.ret = Join(Append(path.dirs, path.stem \o path.ext))]
           ELSE ap' = [ap EXCEPT !.pc = "package",
                                 !.nodeModulesIndex = nodeModulesIndex,
                                 !.segments = AfterNodeModules(path)]
    /\ UNCHANGED path

\* packageName and pathAfterPackage
ApPackage ==
    /\ ap.pc = "package"
    /\ ap' = [ap EXCEPT !.pc = "dist",
                        !.packageName = PackageName(ap.segments),
                        !.pathAfterPackage = PathAfterPackage(ap.segments)]
    /\ UNCHANGED path

\* remove distribution folder if present
ApDist ==
    /\ ap.pc = "dist"
    /\ ap' = [ap EXCEPT !.pc = "file",
                        !.pathAfterPackage = StripDistFolder(@)]
    /\ UNCHANGED path

\* the block under `if (pathAfterPackage.length > 0)`
ApFile ==
    /\ ap.pc = "file"
    /\ ap' = [ap EXCEPT !.pc = "join",
                        !.pathAfterPackage =
                            StripFileName(@, NameWithoutExt(path.stem, path.ext))]
    /\ UNCHANGED path

\* construct the final import path
ApJoin ==
    /\ ap.pc = "join"
    /\ ap' = [ap EXCEPT !.pc = "done",
                        !.ret = JoinPackagePath(ap.packageName, ap.pathAfterPackage)]
    /\ UNCHANGED path

ApNext ==
    \/ ApLocate
    \/ ApPackage
    \/ ApDist
    \/ ApFile
    \/ ApJoin

(***************************************************************************)
(* One call of resolveLibraryEntryPoint                                    *)
(*                                                                         *)
(* manifest  the package.json the call reads: [readable, exports, module,  *)
(*           main]                                                         *)
(* er        the locals of the call: pc, entryPoint, and ret, the path     *)
(*           returned once er.pc = "done"; er.pc = "failed" where the call *)
(*           throws                                                        *)
(***************************************************************************)
VARIABLES manifest, er

evars == <<manifest, er>>

\* keys in a condition tree of the exports field
MaxKeys == 2

ConditionKeys == {"import", "require", "types", "browser"}

ConditionLeaves == {Str("A.js"), Str("gone.js"), Str("")}

\* the objects of objects with one more key, not one they have, holding one
\* of children
WithKey(objects, children) ==
    {Obj(Append(t[1].keys, t[2]), Append(t[1].vals, t[3])) :
        t \in {u \in objects \X ConditionKeys \X children : ~HasKey(u[1], u[2])}}

\* the condition trees with exactly n keys, and the objects among them
RECURSIVE TreesOf(_)
RECURSIVE ObjectsOf(_)
TreesOf(n) == IF n = 0 THEN ConditionLeaves \cup ObjectsOf(0) ELSE ObjectsOf(n)

ObjectsOf(n) ==
    IF n = 0 THEN {Obj(<<>>, <<>>)}
    ELSE UNION {WithKey(ObjectsOf(n - 1 - j), TreesOf(j)) : j \in 0..(n - 1)}

Trees(n) == UNION {TreesOf(m) : m \in 0..n}

FieldMenu(file) == {Undef, Str(file), Str("gone.js")}

ExportsMenu ==
    {Undef, Str("A.js"), Str(""),
     Obj(<<".">>, <<Str("A.js")>>),
     Obj(<<".">>, <<Str("gone.js")>>),
     Obj(<<".">>, <<Obj(<<"types">>, <<Str("A.js")>>)>>),
     Obj(<<"./sub">>, <<Str("A.js")>>)}

ManifestMenu ==
    {[readable |-> TRUE, exports |-> Obj(<<".">>, <<tree>>),
      module |-> Str("E.js"), main |-> Undef] : tree \in Trees(MaxKeys)}
    \cup [readable : BOOLEAN, exports : ExportsMenu,
          module : FieldMenu("E.js"), main : FieldMenu("A.js")]

ErIdle == [pc |-> "idle", entryPoint |-> Undef, ret |-> Null]

NoManifest == [readable |-> FALSE, exports |-> Undef, module |-> Undef, main |-> Undef]

ErInit ==
    /\ manifest \in ManifestMenu
    /\ er = [ErIdle EXCEPT !.pc = "start"]

ErNone ==
    /\ manifest = NoManifest
    /\ er = ErIdle

\* readFile and JSON.parse, or the throw of their catch
ErRead ==
    /\ er.pc = "start"
    /\ er' = [er EXCEPT !.pc = IF manifest.readable THEN "exports" ELSE "failed"]
    /\ UNCHANGED manifest

\* if (packageJson.exports) { ... }
ErExports ==
    /\ er.pc = "exports"
    /\ er' = [er EXCEPT !.pc = "fallback", !.entryPoint = ExportsEntry(manifest)]
    /\ UNCHANGED manifest

\* entryPoint ??= packageJson.module ?? packageJson.main ?? "index.js"
ErFallback ==
    /\ er.pc = "fallback"
    /\ er' = [er EXCEPT !.pc = "verify", !.entryPoint = FallbackEntry(@, manifest)]
    /\ UNCHANGED manifest

\* if (!(await fileExists(resolvedEntry))) throw ...; return resolvedEntry
ErVerify ==
    /\ er.pc = "verify"
    /\ er' = IF FileExists(ResolvedEntry(er.entryPoint))
             THEN [er EXCEPT !.pc = "done", !.ret = ResolvedEntry(er.entryPoint)]
             ELSE [er EXCEPT !.pc = "failed"]
    /\ UNCHANGED manifest

ErNext ==
    \/ ErRead
    \/ ErExports
    \/ ErFallback
    \/ ErVerify

(***************************************************************************)
(* One call of resolveModulePath                                           *)
(*                                                                         *)
(* disk  the regular files that exist where the call looks                 *)
(* mr    the call: its specifier, pc, k (the candidate it tries next),     *)
(*       stats (the fileExists calls made) and ret, the path returned once *)
(*       mr.pc = "done" (Null for null)                                    *)
(***************************************************************************)
VARIABLES disk, mr

mvars == <<disk, mr>>

\* regular files on the disk of one call
MaxFiles == 2

\* './A', 'A' and './M'
SpecifierMenu == {SrcA, [rel |-> FALSE, abs |-> "A"], SrcMissing}

DiskMenu == {Candidates("A")[k] : k \in 1..Len(Candidates("A"))} \cup {"B.js"}

RECURSIVE Disks(_)
Disks(k) ==
    IF k = 0 THEN {{}}
    ELSE LET smaller == Disks(k - 1)
         IN  smaller \cup {d \cup {f} : d \in smaller, f \in DiskMenu}

MrIdle == [specifier |-> SrcBare, pc |-> "idle", k |-> 1, stats |-> 0, ret |-> Null]

MrInit ==
    /\ disk \in Disks(MaxFiles)
    /\ \E specifier \in SpecifierMenu :
          mr = [MrIdle EXCEPT !.specifier = specifier, !.pc = "start"]

MrNone ==
    /\ disk = {}
    /\ mr = MrIdle

\* if (!specifier.startsWith(".")) return null
MrStart ==
    /\ mr.pc = "start"
    /\ mr' = [mr EXCEPT !.pc = IF mr.specifier.rel THEN "try" ELSE "done"]
    /\ UNCHANGED disk

\* one fileExists call, on the path as it is, with an extension or with an
\* index file; return null after the last
MrTry ==
    /\ mr.pc = "try"
    /\ LET candidates == Candidates(mr.specifier.abs)
       IN  IF candidates[mr.k] \in disk
           THEN mr' = [mr EXCEPT !.pc = "done", !.stats = @ + 1, !.ret = candidates[mr.k]]
           ELSE IF mr.k < Len(candidates)
           THEN mr' = [mr EXCEPT !.k = @ + 1, !.stats = @ + 1]
           ELSE mr' = [mr EXCEPT !.pc = "done", !.stats = @ + 1]
    /\ UNCHANGED disk

MrNext ==
    \/ MrStart
    \/ MrTry

(***************************************************************************)
(* transformFiles                                                          *)
(*                                                                         *)
(* tf  the call: its arguments files (the entries of the Map, in insertion *)
(*     order), importMap and targetLibraries; pc, idx (the entry the map   *)
(*     callback is at), transformedEntries, results (the Map returned once *)
(*     tf.pc = "done") and threw, the files on whose tree printSync threw. *)
(* The transformCode call of an entry runs on input, tc and output.  The   *)
(* texts of the model parse alike with and without tsx.                    *)
(***************************************************************************)
VARIABLES tf

tvars == <<tf>>

\* files in one batch
MaxBatch == 2

FileNameMenu == {"a.ts", "b.tsx", "c.ts"}

BatchTexts ==
    {<<ImportText("tidy", "'", FALSE,
                  <<NamedSpec(Null, "Button", FALSE), NamedSpec(Null, "Input", FALSE)>>, "pkg")>>,
     <<ImportText("tidy", "'", FALSE, <<NamespaceSpec("P")>>, "pkg"), OtherText("loose")>>,
     <<GarbageText>>,
     <<ImportText("tidy", "'", FALSE, <<NamedSpec(Null, "Unknown", FALSE)>>, "pkg")>>,
     <<OtherText("loose")>>,
     <<ImportText("tidy", "'", FALSE, <<NamedSpec(Null, "Input", FALSE)>>, "other"),
       ImportText("tidy", "'", FALSE,
                  <<DefaultSpec("D"), NamedSpec(Null, "Button", FALSE)>>, "pkg")>>}

FileEntry(filename, code) == [filename |-> filename, code |-> code]

HasFile(files, filename) == \E n \in 1..Len(files) : files[n].filename = filename

\* the entries of a Map of up to k files
RECURSIVE Batches(_)
Batches(k) ==
    IF k = 0 THEN {<<>>}
    ELSE LET shorter == Batches(k - 1)
         IN  shorter \cup
             UNION {{Append(files, FileEntry(filename, code)) :
                        filename \in {f \in FileNameMenu : ~HasFile(files, f)},
                        code \in BatchTexts}
                    : files \in shorter}

TfIdle ==
    [pc |-> "idle", files |-> <<>>, importMap |-> EmptyMap,
     targetLibraries |-> [given |-> FALSE, libs |-> {}],
     idx |-> 1, transformedEntries |-> <<>>, results |-> EmptyMap, threw |-> {}]

TfInit ==
    /\ \E files \in Batches(MaxBatch), importMap \in ImportMaps, targetLibraries \in TargetChoices :
          tf = [TfIdle EXCEPT !.pc = "map", !.files = files, !.importMap = importMap,
                              !.targetLibraries = targetLibraries]
    /\ TcNone

TfNone == tf = TfIdle

\* a faulty call that goes on with the result object of the call before
CallTransformCodeShared(code, before) ==
    [TcIdle EXCEPT !.pc = "start", !.result = [before EXCEPT !.code = code]]

\* transformCode(code, importMap, targetLibraries, { filename }): the locals
\* of a new call
CallTransformCode(code, before) ==
    [TcIdle EXCEPT !.pc = "start", !.result = NewResult(code)]

\* the map callback calls transformCode on the entry
TfCall ==
    /\ tf.pc = "map"
    /\ tf.idx <= Len(tf.files)
    /\ tc.pc = "idle"
    /\ input' = [code |-> tf.files[tf.idx].code, importMap |-> tf.importMap,
                 targetLibraries |-> tf.targetLibraries]
    /\ tc' = CallTransformCode(tf.files[tf.idx].code, output)
    /\ UNCHANGED <<output, tf>>

\* return [filename, result]
TfEntry ==
    /\ tf.pc = "map"
    /\ tc.pc \in {"done", "printfailed"}
    /\ tf' = [tf EXCEPT !.idx = @ + 1,
                        !.transformedEntries =
                            Append(@, [filename |-> tf.files[tf.idx].filename,
                                       result |-> output]),
                        !.threw = IF tc.pc = "printfailed"
                                  THEN @ \cup {tf.files[tf.idx].filename} ELSE @]
    /\ tc' = TcIdle
    /\ UNCHANGED <<input, output>>

\* results.set(filename, transformedResult) for every entry; return results
TfReturn ==
    /\ tf.pc = "map"
    /\ tf.idx > Len(tf.files)
    /\ tc.pc = "idle"
    /\ tf' = [tf EXCEPT !.pc = "done",
                        !.results =
                            NewMap([n \in 1..Len(tf.transformedEntries) |->
                                       tf.transformedEntries[n].filename],
                                   [n \in 1..Len(tf.transformedEntries) |->
                                       tf.transformedEntries[n].result])]
    /\ UNCHANGED <<input, tc, output>>

\* the steps of the transformCode call of an entry
TcCall ==
    \/ TcParse
    \/ TcItem
    \/ TcUnchanged
    \/ TcPrint

TfNext ==
    \/ TfCall
    \/ TfEntry
    \/ TfReturn

vars == <<avars, rvars, pvars, evars, mvars, tvars>>

\* one package, or a package whose entry cannot be located
Init ==
    /\ \/ InitWith(Layouts(MaxStmts, PlacedOk, {"E.js"}), {<<"pkgE">>})
       \/ InitWith(Layouts(1, PlacedOk, {"A.js"}), {<<"pkgA">>, <<"pkgNone">>, <<"pkgGone">>})
    /\ TcNone
    /\ ApNone
    /\ ErNone
    /\ MrNone
    /\ TfNone

Next == ANext /\ UNCHANGED <<rvars, pvars, evars, mvars, tvars>>

Spec == Init /\ [][Next]_vars

\* several packages analysed by one analyzeLibraries call
ManyLibs ==
    {<<>>, <<"pkgE", "pkgA">>, <<"pkgA", "pkgE">>, <<"pkgE", "pkgE">>,
     <<"pkgE", "pkgNone">>, <<"pkgGone", "pkgA">>}

InitMany ==
    /\ InitWith(Layouts(MaxStmtsMany, PlacedResolving, {"E.js", "A.js"}), ManyLibs)
    /\ TcNone
    /\ ApNone
    /\ ErNone
    /\ MrNone
    /\ TfNone

SpecMany == InitMany /\ [][Next]_vars

\* one transformCode call
InitRewrite ==
    /\ InitWith({[f \in Files |-> <<>>]}, {<<>>})
    /\ TcInit
    /\ ApNone
    /\ ErNone
    /\ MrNone
    /\ TfNone

RewriteNext == TcNext /\ UNCHANGED <<pvars, evars, mvars, tvars>>

SpecRewrite == InitRewrite /\ [][RewriteNext]_vars

\* one absoluteToPackagePath call
InitPath ==
    /\ InitWith({[f \in Files |-> <<>>]}, {<<>>})
    /\ TcNone
    /\ ApInit
    /\ ErNone
    /\ MrNone
    /\ TfNone

PathNext == ApNext /\ UNCHANGED <<avars, rvars, evars, mvars, tvars>>

SpecPath == InitPath /\ [][PathNext]_vars

\* one resolveLibraryEntryPoint call
InitEntry ==
    /\ InitWith({[f \in Files |-> <<>>]}, {<<>>})
    /\ TcNone
    /\ ApNone
    /\ ErInit
    /\ MrNone
    /\ TfNone

EntryNext == ErNext /\ UNCHANGED <<avars, rvars, pvars, mvars, tvars>>

SpecEntry == InitEntry /\ [][EntryNext]_vars

\* one resolveModulePath call
InitModulePath ==
    /\ InitWith({[f \in Files |-> <<>>]}, {<<>>})
    /\ TcNone
    /\ ApNone
    /\ ErNone
    /\ MrInit
    /\ TfNone

ModulePathNext == MrNext /\ UNCHANGED <<avars, rvars, pvars, evars, tvars>>

SpecModulePath == InitModulePath /\ [][ModulePathNext]_vars

\* one transformFiles call
InitBatch ==
    /\ InitWith({[f \in Files |-> <<>>]}, {<<>>})
    /\ ApNone
    /\ ErNone
    /\ MrNone
    /\ TfInit

BatchNext ==
    \/ TcCall /\ UNCHANGED <<pvars, evars, mvars, tvars>>
    \/ TfNext /\ UNCHANGED <<avars, pvars, evars, mvars>>

SpecBatch == InitBatch /\ [][BatchNext]_vars

(***************************************************************************)
(* The re-export graph of a layout, read off the texts                     *)
(***************************************************************************)
\* the files the statements of f re-export from
TargetFiles(text, kinds) ==
    {ResolveModulePath(text[n].src) : n \in {m \in 1..Len(text) : text[m].k \in kinds}}
        \ {Null}

Edges(f) == TargetFiles(fs[f], {"reexp", "star"})

RECURSIVE Closure(_)
Closure(files) ==
    LET more == files \cup UNION {Edges(f) : f \in files}
    IN  IF more = files THEN files ELSE Closure(more)

\* the files reachable from the entry file of libs[p]
Reachable(p) == Closure({ResolveLibraryEntryPoint(libs[p])})

\* the names a file exports by its own statements
ExportedNames(f) ==
    {fs[f][n].names[1] : n \in {m \in 1..Len(fs[f]) : fs[f][m].k \in {"decl", "reexp"}}}

\* the names a file declares itself
DeclaredNames(f) ==
    {fs[f][n].names[1] : n \in {m \in 1..Len(fs[f]) : fs[f][m].k = "decl"}}

Count(text, kind) == Cardinality({n \in 1..Len(text) : text[n].k = kind})

\* steps a traversal of the layout can take at most: per file the visit, the
\* parse and the direct exports; per named re-export the iteration and the
\* callee's visited check; per star re-export the call, the callee's visited
\* check, the merge and the second parse.  The call with the entry file adds
\* one visited check.
RECURSIVE SumOver(_, _)
SumOver(files, text) ==
    IF files = {} THEN 0
    ELSE LET f == CHOOSE g \in files : TRUE
         IN  3 + 2 * Count(text[f], "reexp") + 4 * Count(text[f], "star")
             + SumOver(files \ {f}, text)

StepBound == 1 + SumOver(Files, fs)

(***************************************************************************)
(* C1: a resolve call terminates on every finite re-export graph, cyclic   *)
(* ones included: a traversal that has not returned is at a step it can    *)
(* take, the number of steps taken never exceeds StepBound, and the number *)
(* of visits that pass the visited check is at most the number of files.   *)
(***************************************************************************)
C1_TerminatesWithinFileCount ==
    \A p \in Procs :
        /\ trav[p].started <= Cardinality(Files)
        /\ trav[p].steps <= StepBound
        /\ status[p] = "running" => Phase(fs, Loc(p)) \in Phases

\* a finished traversal of a graph with a mutual cycle, both files visited
C1_Witness ==
    \E p \in Procs : \E f, g \in visited[p] :
        /\ status[p] = "done"
        /\ f # g
        /\ g \in Edges(f)
        /\ f \in Edges(g)

(***************************************************************************)
(* C2: when every file parses, every name exported by a file reachable     *)
(* from the entry file (its direct exports and the names of its named      *)
(* re-exports) is a key of the returned ImportMap.                         *)
(***************************************************************************)
C2_UnionOfReachableExports ==
    \A p \in Procs :
        (status[p] = "done" /\ \A f \in Reachable(p) : ~ParseThrows(fs[f]))
            => \A f \in Reachable(p) : ExportedNames(f) \subseteq DOMAIN returned[p]

\* a name declared two star re-exports below the entry file, collected
\* through two nested scratch maps
C2_Witness ==
    \E p \in Procs : \E f, g \in Files :
        /\ status[p] = "done"
        /\ f \in TargetFiles(fs[ResolveLibraryEntryPoint(libs[p])], {"star"})
        /\ g \in TargetFiles(fs[f], {"star"})
        /\ g \notin {f, ResolveLibraryEntryPoint(libs[p])}
        /\ DeclaredNames(g) # {}
        /\ DeclaredNames(g) \subseteq DOMAIN returned[p]

(***************************************************************************)
(* C3: first-wins.  A step of a traversal never changes or removes a       *)
(* binding of any of its maps (the ImportMap or a scratch map): a map that *)
(* is there before and after the step keeps every binding it had.          *)
(***************************************************************************)
KeepsBindings(before, after) ==
    \A n \in DOMAIN before : n \in DOMAIN after /\ after[n] = before[n]

C3_FirstWins ==
    [][\A p \in Procs :
         \A k \in 1..Len(trav[p].maps) :
            k <= Len(trav'[p].maps) => KeepsBindings(trav[p].maps[k], trav'[p].maps[k])]_vars

\* a name bound to one file although another visited file exports it too
C3_Witness ==
    \E p \in Procs : \E n \in DOMAIN returned[p] : \E g \in visited[p] :
        /\ status[p] = "done"
        /\ ~ParseThrows(fs[g])
        /\ g # returned[p][n]
        /\ n \in DeclaredNames(g)

(***************************************************************************)
(* C4: every name of the returned ImportMap is bound to a file that        *)
(* declares it, never to a barrel that only re-exports it from another     *)
(* file of the package.  Stated for the well-formed layouts and the names  *)
(* that some reachable file declares.                                      *)
(***************************************************************************)
\* export { n } from <a source that resolves to target>, in the text of f
ReExports(f, n, target) ==
    \E k \in 1..Len(fs[f]) :
        /\ fs[f][k].k = "reexp"
        /\ fs[f][k].names[1] = n
        /\ ResolveModulePath(fs[f][k].src) = target

\* every reachable file parses, exports no name twice, and re-exports by
\* name only what its target exports
WellFormed(p) ==
    \A f \in Reachable(p) :
        /\ ~ParseThrows(fs[f])
        /\ Cardinality(ExportedNames(f)) = Count(fs[f], "decl") + Count(fs[f], "reexp")
        /\ \A n \in Names : \A g \in Files : ReExports(f, n, g) => n \in ExportedNames(g)

\* the names f is the last file of the package to export: those it declares
\* and those it re-exports from a source that resolves to no file
OwnNames(f) == ExportedNames(f) \ {n \in Names : \E g \in Files : ReExports(f, n, g)}

C4_BoundToDeclarer ==
    \A p \in Procs :
        (status[p] = "done" /\ WellFormed(p))
            => \A n \in DOMAIN returned[p] :
                  (\E f \in Reachable(p) : n \in OwnNames(f))
                      => n \in OwnNames(returned[p][n])

(***************************************************************************)
(* C5: within one resolve call, parseModuleExports runs on each file at    *)
(* most once (the parse of the file's own visit and the parses of it as a  *)
(* star target counted together).                                          *)
(***************************************************************************)
C5_ParsedAtMostOnce ==
    \A p \in Procs : \A f \in Files :
        trav[p].parsed[f] + trav[p].starParsed[f] <= 1

\* the statements of the files visited by p that re-export from f
StatementsTo(p, f, kinds) ==
    {st \in UNION {{<<g, k>> : k \in 1..Len(fs[g])} : g \in visited[p]} :
        /\ ~ParseThrows(fs[st[1]])
        /\ fs[st[1]][st[2]].k \in kinds
        /\ ResolveModulePath(fs[st[1]][st[2]].src) = f}

(***************************************************************************)
(* C5, amended: the visit of a file parses it at most once, however many   *)
(* chains reach it; beyond that a file is parsed once more for each        *)
(* `export * from` statement of a visited file that resolves to it.        *)
(***************************************************************************)
C5_ParsedOncePerVisit ==
    \A p \in Procs : \A f \in Files :
        /\ trav[p].parsed[f] <= 1
        /\ trav[p].parsed[f] = 1 => f \in visited[p]
        /\ (status[p] = "done" /\ f \in visited[p]) => trav[p].parsed[f] = 1
        /\ trav[p].starParsed[f] <= Cardinality(StatementsTo(p, f, {"star"}))

\* a file reached by two statements, one of them a star re-export: visited
\* once, parsed by its visit and again as the star target
C5_Witness ==
    \E p \in Procs : \E f \in Files :
        /\ status[p] = "done"
        /\ Cardinality(StatementsTo(p, f, {"reexp", "star"})) >= 2
        /\ trav[p].parsed[f] = 1
        /\ trav[p].starParsed[f] >= 1

(***************************************************************************)
(* C6: analyzeLibrary is rejected exactly when the entry file cannot be    *)
(* located.  In the map a finished traversal returns, a visited file that  *)
(* does not parse is the value of a name only where a named re-export of   *)
(* another file bound the name to it; a visited file that parses has every *)
(* name it exports bound, its named re-exports from unresolved sources and *)
(* the statements after a re-export of an unparsable file included, and    *)
(* every file it re-exports from has been visited.                         *)
(***************************************************************************)
C6_OnlyMissingEntryIsFatal ==
    \A p \in Procs :
        /\ status[p] = "failed"
              <=> (status[p] # "init" /\ ResolveLibraryEntryPoint(libs[p]) = Null)
        /\ status[p] = "done" =>
              \A f \in visited[p] :
                  IF ParseThrows(fs[f])
                  THEN \A n \in DOMAIN returned[p] :
                          returned[p][n] = f =>
                              \E g \in visited[p] \ {f} :
                                  ~ParseThrows(fs[g]) /\ ReExports(g, n, f)
                  ELSE /\ ExportedNames(f) \subseteq DOMAIN returned[p]
                       /\ Edges(f) \subseteq visited[p]

\* a finished traversal that met an unparsable file below the entry file
\* and still bound what the entry file declares
C6_Witness ==
    \E p \in Procs : \E g \in visited[p] :
        /\ status[p] = "done"
        /\ ParseThrows(fs[g])
        /\ g # ResolveLibraryEntryPoint(libs[p])
        /\ DeclaredNames(ResolveLibraryEntryPoint(libs[p])) # {}
        /\ DeclaredNames(ResolveLibraryEntryPoint(libs[p])) \subseteq DOMAIN returned[p]

(***************************************************************************)
(* C7: in analyzeLibraries, a package whose entry cannot be located does   *)
(* not abort the batch: while some requested package has an entry file,    *)
(* the promise of analyzeLibraries is not rejected.                        *)
(***************************************************************************)
C7_FailureDoesNotAbortBatch ==
    (\E p \in Procs : ResolveLibraryEntryPoint(libs[p]) # Null) => batch # "rejected"

(***************************************************************************)
(* A stand-alone analyzeLibrary call: dfsAnalyze run to its end on a       *)
(* context of its own                                                      *)
(***************************************************************************)
RECURSIVE RunFrom(_, _)
RunFrom(fsys, loc) ==
    IF loc.stack = <<>> THEN loc.maps[1] ELSE RunFrom(fsys, DfsStep(fsys, loc))

RunAlone(fsys, libraryName) ==
    RunFrom(fsys, WithVisited(NewTraversal(ResolveLibraryEntryPoint(libraryName), 0), {}))

C9_ParseFailureReturnsInput ==
    (ParseSyncThrows(input.code) /\ tc.pc # "start") =>
        /\ tc.pc = "done"
        /\ output = [code |-> input.code, transformed |-> FALSE,
                     skipped |-> <<>>, optimized |-> <<>>]
        /\ tc.warns = 1
        /\ tc.debugs = 0
        /\ tc.idx = 1

\* a returned call on a text that holds an import before the malformed part
C9_Witness ==
    /\ tc.pc = "done"
    /\ ParseSyncThrows(input.code)
    /\ Len(input.code) = 2
    /\ input.code[1].t = "import"
    /\ input.importMap # EmptyMap

(***************************************************************************)
(* C10: when printSync throws, transformCode returns transformed FALSE and *)
(* the input text as code, although transformImportDeclaration has set     *)
(* result.transformed; text that printSync produced is returned only with  *)
(* transformed TRUE.                                                       *)
(***************************************************************************)
C10_PrintFailureReverts ==
    /\ tc.pc = "printfailed" =>
          /\ output.transformed = FALSE
          /\ output.code = input.code
          /\ tc.warns >= 1
    /\ (tc.pc \in {"done", "printfailed"} /\ output.code # input.code) =>
          output.transformed = TRUE

\* a print failure after an import was rewritten and the flag was set
C10_Witness ==
    /\ tc.pc = "printfailed"
    /\ tc.result.transformed = TRUE
    /\ tc.result.optimized # <<>>
    /\ PrintSync(tc.newBody) # input.code

(***************************************************************************)
(* The statements of the input text, as the claims about transformCode     *)
(* classify them                                                           *)
(***************************************************************************)
\* the module body of the input text
InputBody == ParseSync(input.code)

\* transformCode has returned and parseSync did not throw
Returned == tc.pc \in {"done", "printfailed"} /\ ~ParseSyncThrows(input.code)

InBody(node, body) == \E k \in 1..Len(body) : body[k] = node

IsTargetImport(node) ==
    node.type = "ImportDeclaration" /\ node.source.value \in Targets(input)

NamespaceBound(node) ==
    \E k \in 1..Len(node.specifiers) : node.specifiers[k].type = "ImportNamespaceSpecifier"

DefaultBound(node) ==
    \E k \in 1..Len(node.specifiers) : node.specifiers[k].type = "ImportDefaultSpecifier"

IsNamedBinding(specifier) == specifier.type = "ImportSpecifier"

\* the named bindings of an import, left to right
NamedBindings(node) == SelectSeq(node.specifiers, IsNamedBinding)

\* import * as X from a target package, or a side-effect import of one
BailsOut(node) ==
    IsTargetImport(node) /\ (NamespaceBound(node) \/ node.specifiers = <<>>)

SkipEntry(node) ==
    [source |-> node.source.value,
     reason |-> IF NamespaceBound(node)
                THEN "Namespace import (import * as) detected"
                ELSE "Side-effect import (no specifiers)"]

ExpectedSkipped ==
    LET bailed == SelectSeq(InputBody, BailsOut)
    IN  [k \in 1..Len(bailed) |-> SkipEntry(bailed[k])]

(***************************************************************************)
(* C11: a namespace import or a side-effect import of a target package is  *)
(* in the output body as parsed, and skipped holds exactly one entry for   *)
(* each of them, in statement order, with the namespace or the side-effect *)
(* reason, and no other entry; a text of only such imports is returned     *)
(* with transformed FALSE, code the input text and nothing optimized.      *)
(***************************************************************************)
C11_BailOutsLeftUnchanged ==
    Returned =>
        /\ \A n \in 1..Len(InputBody) :
              BailsOut(InputBody[n]) => InBody(InputBody[n], tc.newBody)
        /\ output.skipped = ExpectedSkipped
        /\ (\A n \in 1..Len(InputBody) : BailsOut(InputBody[n])) =>
              /\ output.transformed = FALSE
              /\ output.code = input.code
              /\ output.optimized = <<>>

\* a namespace import kept beside an import that was rewritten and printed
C11_Witness ==
    /\ tc.pc = "done"
    /\ Len(input.code) = 2
    /\ BailsOut(InputBody[1])
    /\ NamespaceBound(InputBody[1])
    /\ output.transformed = TRUE
    /\ Len(output.skipped) = 1

(***************************************************************************)
(* C12: an import whose specifier is not exactly a target package (a       *)
(* subpath of one, or another package) is in the output body as parsed and *)
(* no entry of skipped or optimized names its specifier; on a text without *)
(* imports of a target package transformCode changes nothing and logs      *)
(* nothing.                                                                *)
(***************************************************************************)
C12_NonTargetPassesThrough ==
    Returned =>
        /\ \A n \in 1..Len(InputBody) :
              (InputBody[n].type = "ImportDeclaration" /\ ~IsTargetImport(InputBody[n]))
                  => InBody(InputBody[n], tc.newBody)
        /\ \A k \in 1..Len(output.skipped) : output.skipped[k].source \in Targets(input)
        /\ \A k \in 1..Len(output.optimized) : output.optimized[k].original \in Targets(input)
        /\ (\A n \in 1..Len(InputBody) : ~IsTargetImport(InputBody[n])) =>
              /\ output = NewResult(input.code)
              /\ tc.warns = 0
              /\ tc.debugs = 0

\* a subpath import of a target package whose name is in the ImportMap,
\* beside an import of another package, returned untouched
C12_Witness ==
    /\ tc.pc = "done"
    /\ Len(input.code) = 2
    /\ input.code[1].source = "pkg/Button"
    /\ input.code[2].source = "other"
    /\ "pkg" \in Targets(input)
    /\ "other" \notin Targets(input)
    /\ "Button" \in DOMAIN input.importMap
    /\ "Input" \in DOMAIN input.importMap
    /\ output = NewResult(input.code)

(***************************************************************************)
(* The import statements of a text: for each, its specifier and its        *)
(* bindings (kind, imported name, local name), in order                    *)
(***************************************************************************)
ImportedName(specifier) ==
    IF specifier.imported = Null THEN specifier.local ELSE specifier.imported

BindingOf(specifier) ==
    [type |-> specifier.type, imported |-> ImportedName(specifier),
     local |-> specifier.local]

IsImportText(statement) == statement.t = "import"

ImportsOf(code) ==
    LET imports == SelectSeq(code, IsImportText)
    IN  [k \in 1..Len(imports) |->
            [source |-> imports[k].source,
             bindings |-> [b \in 1..Len(imports[k].specifiers) |->
                              BindingOf(imports[k].specifiers[b])]]]

(***************************************************************************)
(* C13: the tool run twice converges.  A second call, on the code the      *)
(* first call returned and with the same ImportMap and targets, returns    *)
(* code with the same sequence of import statements (same specifiers, same *)
(* imported and local names) as the code it was given.                     *)
(***************************************************************************)
C13_SecondPassConverges ==
    (tc.pass = 2 /\ tc.pc = "done") =>
        ImportsOf(output.code) = ImportsOf(input.code)

\* a second call that rewrote and printed again: the first call had left a
\* re-emitted import of the target package in the text
C13_Witness ==
    /\ tc.pass = 2
    /\ tc.pc = "done"
    /\ tc.hasChanges
    /\ Len(ImportsOf(input.code)) >= 2
    /\ \E k \in 1..Len(input.code) : input.code[k].source \notin Targets(input)
                                      /\ input.code[k].t = "import"

\* a named import of a target package that transformImportDeclaration splits
Splits(node) ==
    IsTargetImport(node) /\ ~NamespaceBound(node) /\ NamedBindings(node) # <<>>

ResolvedBinding(specifier) == ImportedName(specifier) \in DOMAIN input.importMap

\* none of the imported names of the statement is in the ImportMap
Unresolved(node) ==
    /\ Splits(node)
    /\ \A k \in 1..Len(NamedBindings(node)) : ~ResolvedBinding(NamedBindings(node)[k])

\* import { imported as local } from source, in a body
Emitted(body, specifier, source) ==
    \E k \in 1..Len(body) :
        /\ body[k].type = "ImportDeclaration"
        /\ body[k].source.value = source
        /\ Len(body[k].specifiers) = 1
        /\ BindingOf(body[k].specifiers[1]) = BindingOf(specifier)

(***************************************************************************)
(* C14: when no named binding of the text's target-package imports is in   *)
(* the ImportMap, transformCode re-emits each such binding against the     *)
(* original specifier, warns, leaves optimized empty and returns           *)
(* transformed FALSE.                                                      *)
(***************************************************************************)
C14_UnresolvedReportsUntransformed ==
    (/\ tc.pc = "done"
     /\ ~ParseSyncThrows(input.code)
     /\ \E n \in 1..Len(InputBody) : Unresolved(InputBody[n])
     /\ \A n \in 1..Len(InputBody) : Splits(InputBody[n]) => Unresolved(InputBody[n]))
        => /\ \A n \in 1..Len(InputBody) :
                Unresolved(InputBody[n]) =>
                    \A k \in 1..Len(NamedBindings(InputBody[n])) :
                        Emitted(tc.newBody, NamedBindings(InputBody[n])[k],
                                InputBody[n].source.value)
           /\ tc.warns >= 1
           /\ output.optimized = <<>>
           /\ output.transformed = FALSE

\* the identifiers the import statements of a text bind
LocalsOf(code) ==
    UNION {{code[n].specifiers[k].local : k \in 1..Len(code[n].specifiers)} :
             n \in {m \in 1..Len(code) : code[m].t = "import"}}

\* the specifier a named binding is emitted against
SpecifierFor(specifier, source) ==
    IF ResolvedBinding(specifier)
    THEN AbsoluteToPackagePath(input.importMap[ImportedName(specifier)])
    ELSE source

TypeOnlyBinding(node, specifier) == node.typeOnly \/ specifier.isTypeOnly

\* the binding is emitted in body against source, type-only or not as given
EmittedAs(body, specifier, source, typeOnly) ==
    \E k \in 1..Len(body) :
        /\ body[k].type = "ImportDeclaration"
        /\ body[k].source.value = source
        /\ Len(body[k].specifiers) = 1
        /\ BindingOf(body[k].specifiers[1]) = BindingOf(specifier)
        /\ TypeOnlyBinding(body[k], body[k].specifiers[1]) = typeOnly

(***************************************************************************)
(* C16: type-only-ness is preserved.  The import emitted for a named       *)
(* binding of a rewritten statement is type-only exactly when the binding  *)
(* was type-only in the input, by `import type { T }` or by `{ type T }`.  *)
(***************************************************************************)
C16_TypeOnlyPreserved ==
    (tc.pc = "done" /\ ~ParseSyncThrows(input.code)) =>
        \A n \in 1..Len(InputBody) :
            Splits(InputBody[n]) =>
                \A k \in 1..Len(NamedBindings(InputBody[n])) :
                    EmittedAs(ParseSync(output.code), NamedBindings(InputBody[n])[k],
                              SpecifierFor(NamedBindings(InputBody[n])[k],
                                           InputBody[n].source.value),
                              TypeOnlyBinding(InputBody[n], NamedBindings(InputBody[n])[k]))

IsDefaultBinding(specifier) == specifier.type = "ImportDefaultSpecifier"

\* import D from a target package, and nothing else
DefaultOnly(node) ==
    /\ IsTargetImport(node)
    /\ node.specifiers # <<>>
    /\ \A k \in 1..Len(node.specifiers) : IsDefaultBinding(node.specifiers[k])

\* the import that carries only the default binding of node, against the
\* specifier of node
DefaultKept(body, node) ==
    \E k \in 1..Len(body) :
        /\ body[k].type = "ImportDeclaration"
        /\ body[k].source = node.source
        /\ body[k].specifiers = SelectSeq(node.specifiers, IsDefaultBinding)
        /\ body[k].typeOnly = node.typeOnly

(***************************************************************************)
(* C17: for an import of a target package with a default binding and named *)
(* bindings, the output body holds one import with only the default        *)
(* binding against the original specifier and one import for each named    *)
(* binding; an import with only a default binding is in the output body as *)
(* parsed and adds no entry to skipped or optimized: skipped holds only    *)
(* bail-out entries, optimized has no more entries than statements that    *)
(* are split, and a text whose target imports are all default-only is      *)
(* returned as the fresh result.                                           *)
(***************************************************************************)
C17_DefaultSplitOrKept ==
    Returned =>
        /\ \A n \in 1..Len(InputBody) :
              (Splits(InputBody[n]) /\ DefaultBound(InputBody[n])) =>
                  /\ DefaultKept(tc.newBody, InputBody[n])
                  /\ \A k \in 1..Len(NamedBindings(InputBody[n])) :
                        Emitted(tc.newBody, NamedBindings(InputBody[n])[k],
                                SpecifierFor(NamedBindings(InputBody[n])[k],
                                             InputBody[n].source.value))
        /\ \A n \in 1..Len(InputBody) :
              DefaultOnly(InputBody[n]) =>
                  /\ InBody(InputBody[n], tc.newBody)
                  /\ \A k \in 1..Len(output.skipped) :
                        output.skipped[k] \in {SkipEntry(InputBody[m]) :
                                                  m \in {i \in 1..Len(InputBody) :
                                                            BailsOut(InputBody[i])}}
        /\ Len(output.optimized) <=
              Cardinality({n \in 1..Len(InputBody) : Splits(InputBody[n])})
        /\ (\A n \in 1..Len(InputBody) :
               IsTargetImport(InputBody[n]) => DefaultOnly(InputBody[n])) =>
              output = NewResult(input.code)

\* a default-plus-named import split beside a default-only import kept
C17_Witness ==
    /\ tc.pc = "done"
    /\ Len(input.code) = 2
    /\ \E n, m \in 1..2 :
          /\ Splits(InputBody[n])
          /\ DefaultBound(InputBody[n])
          /\ DefaultOnly(InputBody[m])
    /\ output.transformed = TRUE
    /\ Len(tc.newBody) = 3


\* the number of declarations that stand for a statement in the output
Width(node) ==
    IF Splits(node)
    THEN Len(NamedBindings(node)) + (IF DefaultBound(node) THEN 1 ELSE 0)
    ELSE 1

\* the place in the output of the first declaration that stands for
\* statement n of the input
RECURSIVE PositionOf(_)
PositionOf(n) == IF n = 1 THEN 1 ELSE PositionOf(n - 1) + Width(InputBody[n - 1])

\* declaration k of body is import { imported as local } from source
NamedAt(body, k, specifier, source) ==
    /\ k \in 1..Len(body)
    /\ body[k].type = "ImportDeclaration"
    /\ body[k].source.value = source
    /\ Len(body[k].specifiers) = 1
    /\ BindingOf(body[k].specifiers[1]) = BindingOf(specifier)

\* declaration k of body carries only the default binding of node
DefaultAt(body, k, node) ==
    /\ k \in 1..Len(body)
    /\ body[k].type = "ImportDeclaration"
    /\ body[k].source = node.source
    /\ body[k].specifiers = SelectSeq(node.specifiers, IsDefaultBinding)

\* the declarations that stand for statement n are at its place, the default
\* binding first and the named bindings left to right
ReplacedInPlace(body, n) ==
    LET node == InputBody[n]
        first == PositionOf(n)
        named == NamedBindings(node)
        shift == IF DefaultBound(node) THEN 1 ELSE 0
    IN  /\ DefaultBound(node) => DefaultAt(body, first, node)
        /\ \A k \in 1..Len(named) :
              NamedAt(body, first + shift + k - 1, named[k],
                      SpecifierFor(named[k], node.source.value))

(***************************************************************************)
(* C18: ordering.  The output body has, for each statement of the input in *)
(* order, either the statement as parsed or, for an import that is split,  *)
(* exactly one declaration per named binding, left to right, after one for *)
(* the default binding if there is one; nothing else is in the body.  In   *)
(* the code printed from it every statement that is not split has its      *)
(* content, at the place that order gives it.                              *)
(***************************************************************************)
C18_ReplacedAtPosition ==
    Returned =>
        /\ Len(tc.newBody) = PositionOf(Len(InputBody) + 1) - 1
        /\ \A n \in 1..Len(InputBody) :
              IF Splits(InputBody[n])
              THEN ReplacedInPlace(tc.newBody, n)
              ELSE tc.newBody[PositionOf(n)] = InputBody[n]
        /\ (tc.pc = "done" /\ tc.hasChanges) =>
              /\ Len(output.code) = Len(tc.newBody)
              /\ \A n \in 1..Len(InputBody) :
                    ~Splits(InputBody[n]) =>
                        output.code[PositionOf(n)] =
                            [input.code[n] EXCEPT !.layout = "tidy"]

\* a statement that is not an import printed third, after the two
\* declarations that replace the import before it
C18_Witness ==
    /\ tc.pc = "done"
    /\ tc.hasChanges
    /\ Len(input.code) = 2
    /\ Splits(InputBody[1])
    /\ Len(NamedBindings(InputBody[1])) = 2
    /\ InputBody[2].type = "Statement"
    /\ Len(output.code) = 3
    /\ output.code[3].t = "other"


\* the named bindings of a statement whose imported name is in the ImportMap
ResolvedBindings(node) == SelectSeq(NamedBindings(node), ResolvedBinding)

\* a statement that is split and has a resolved named binding
HasResolved(node) == Splits(node) /\ ResolvedBindings(node) # <<>>

\* 'importedName → canonicalSpecifier'
RewriteItem(specifier) ==
    ImportedName(specifier) \o " → "
        \o AbsoluteToPackagePath(input.importMap[ImportedName(specifier)])

OptimizedEntry(node) ==
    [original |-> node.source.value,
     rewrites |-> [k \in 1..Len(ResolvedBindings(node)) |->
                      RewriteItem(ResolvedBindings(node)[k])]]

ExpectedOptimized ==
    LET statements == SelectSeq(InputBody, HasResolved)
    IN  [k \in 1..Len(statements) |-> OptimizedEntry(statements[k])]

Boundaries(p) == {n \in 1..Len(p.dirs) : p.dirs[n] = "node_modules"}

HasBoundary(p) == Boundaries(p) # {}

\* the segments after the innermost node_modules directory
AfterBoundary(p) ==
    LET all == Append(p.dirs, p.stem \o p.ext)
        last == CHOOSE n \in Boundaries(p) : \A m \in Boundaries(p) : m <= n
    IN  SubSeq(all, last + 1, Len(all))

NameLength(after) == IF after[1] \in ScopeSegments /\ Len(after) >= 2 THEN 2 ELSE 1

Denylist == {"dist", "esm", "cjs", "lib", "build", "es", "umd", "module"}
SourceExtensions == {".js", ".mjs", ".cjs", ".ts", ".tsx", ".jsx"}

WithoutDist(sub) == IF sub # <<>> /\ sub[1] \in Denylist THEN Tail(sub) ELSE sub

WithoutExtension(sub, p) ==
    IF sub = <<>> THEN sub
    ELSE [sub EXCEPT ![Len(sub)] =
             IF p.ext \in SourceExtensions THEN p.stem ELSE p.stem \o p.ext]

WithoutIndex(sub) ==
    IF sub # <<>> /\ sub[Len(sub)] = "index" THEN SubSeq(sub, 1, Len(sub) - 1) ELSE sub

Collapsed(sub) ==
    IF Len(sub) >= 2 /\ sub[Len(sub) - 1] = sub[Len(sub)]
    THEN SubSeq(sub, 1, Len(sub) - 1)
    ELSE sub

CanonicalSpecifier(p) ==
    LET after == AfterBoundary(p)
        name == SubSeq(after, 1, NameLength(after))
        sub == Collapsed(WithoutIndex(WithoutExtension(
                   WithoutDist(SubSeq(after, NameLength(after) + 1, Len(after))), p)))
    IN  Join(name \o sub)

(***************************************************************************)
(* C20: for every path with a node_modules directory, absoluteToPackagePath *)
(* returns the package name joined with the sub-path after removing a      *)
(* leading distribution folder, stripping the source extension, dropping a *)
(* last `index` and collapsing a last Dir/Dir pair, in this order, and the *)
(* bare package name when nothing of the sub-path remains.                 *)
(***************************************************************************)
C20_CanonicalPackagePath ==
    (ap.pc = "done" /\ HasBoundary(path)) => ap.ret = CanonicalSpecifier(path)


(***************************************************************************)
(* The entry a manifest names, by priority                                 *)
(***************************************************************************)
IsString(value) == value.t = "str"

\* the string of the exports "." condition: the exports field itself when it
\* is a string, else what its "." entry resolves to
DotCondition(m) ==
    IF IsString(m.exports) THEN (IF m.exports.v = "" THEN Undef ELSE m.exports)
    ELSE IF m.exports.t = "obj" /\ \E n \in 1..Len(m.exports.keys) : m.exports.keys[n] = "."
    THEN ResolveConditionalExport(
           m.exports.vals[CHOOSE n \in 1..Len(m.exports.keys) : m.exports.keys[n] = "."])
    ELSE Undef

ChosenEntry(m) ==
    IF IsString(DotCondition(m)) THEN DotCondition(m).v
    ELSE IF IsString(m.module) THEN m.module.v
    ELSE IF IsString(m.main) THEN m.main.v
    ELSE "index.js"

(***************************************************************************)
(* C21: resolveLibraryEntryPoint takes the entry from the exports "."      *)
(* condition if it resolves to a string, else from module, else from main, *)
(* else index.js.  The call throws when the manifest cannot be read, and   *)
(* when the file of the chosen field does not exist, whatever the fields   *)
(* of lower priority name; otherwise it returns the chosen entry.          *)
(***************************************************************************)
C21_EntryByPriority ==
    /\ er.pc \in {"verify", "done", "failed"} /\ manifest.readable =>
          er.entryPoint = Str(ChosenEntry(manifest))
    /\ er.pc \in {"done", "failed"} =>
          IF manifest.readable /\ ChosenEntry(manifest) \in Files
          THEN er.pc = "done" /\ er.ret = ChosenEntry(manifest)
          ELSE er.pc = "failed"

\* the exports condition names a file that is missing and the call throws,
\* though module names a file that exists
C21_Witness ==
    /\ er.pc = "failed"
    /\ manifest.readable
    /\ IsString(DotCondition(manifest))
    /\ DotCondition(manifest).v = "gone.js"
    /\ manifest.module = Str("E.js")


(***************************************************************************)
(* The first string of a condition tree.  A string is a path: the empty    *)
(* string names no file and is passed over like a branch without a string. *)
(***************************************************************************)
IsPath(value) == IsString(value) /\ value.v # ""

PreferredKeys == <<"import", "module", "default", "require", "node">>

IsPresentIn(obj, key) == \E n \in 1..Len(obj.keys) : obj.keys[n] = key

ValueAt(obj, key) == obj.vals[CHOOSE n \in 1..Len(obj.keys) : obj.keys[n] = key]

\* the keys of obj in the order they are tried: the preferred ones it has,
\* then its other keys as written, never `types`
RECURSIVE Present(_, _)
Present(obj, keys) ==
    IF keys = <<>> THEN <<>>
    ELSE (IF IsPresentIn(obj, Head(keys)) THEN <<Head(keys)>> ELSE <<>>)
         \o Present(obj, Tail(keys))

RECURSIVE Others(_)
Others(keys) ==
    IF keys = <<>> THEN <<>>
    ELSE (IF Head(keys) = "types" \/ \E n \in 1..Len(PreferredKeys) : PreferredKeys[n] = Head(keys)
          THEN <<>> ELSE <<Head(keys)>>)
         \o Others(Tail(keys))

TriedKeys(obj) == Present(obj, PreferredKeys) \o Others(obj.keys)

RECURSIVE FirstString(_)
RECURSIVE FirstUnder(_, _)
FirstString(value) ==
    IF IsString(value) THEN value
    ELSE IF value.t = "obj" THEN FirstUnder(value, TriedKeys(value))
    ELSE Undef

FirstUnder(obj, keys) ==
    IF keys = <<>> THEN Undef
    ELSE IF IsPath(FirstString(ValueAt(obj, Head(keys))))
         THEN FirstString(ValueAt(obj, Head(keys)))
         ELSE FirstUnder(obj, Tail(keys))

\* the condition tree under "." of the manifest, if it has one
HasDotTree == manifest.exports.t = "obj" /\ manifest.exports.keys = <<".">>
DotTree == manifest.exports.vals[1]

\* a string of the tree sits under a key that is not `types`
RECURSIVE HasPathOutsideTypes(_)
HasPathOutsideTypes(value) ==
    \/ IsPath(value)
    \/ /\ value.t = "obj"
       /\ \E n \in 1..Len(value.keys) :
             value.keys[n] # "types" /\ HasPathOutsideTypes(value.vals[n])

LookupOrder(absolutePath) ==
    <<absolutePath,
      absolutePath \o ".js", absolutePath \o ".mjs", absolutePath \o ".cjs",
      absolutePath \o ".ts", absolutePath \o ".tsx", absolutePath \o ".jsx",
      absolutePath \o "/index.js", absolutePath \o "/index.mjs",
      absolutePath \o "/index.ts", absolutePath \o "/index.tsx">>

\* place k of the order is the first whose file exists
FirstOnDisk(order, k) ==
    /\ order[k] \in disk
    /\ \A j \in 1..(k - 1) : order[j] \notin disk

(***************************************************************************)
(* C23: for a specifier that starts with "." resolveModulePath returns the *)
(* first regular file that exists among the literal path, the path with    *)
(* .js, .mjs, .cjs, .ts, .tsx, .jsx, and the path as a directory with      *)
(* index.js, index.mjs, index.ts, index.tsx, in this order, and null when  *)
(* none exists; for any other specifier it returns null without a look at  *)
(* the file system.                                                        *)
(***************************************************************************)
C23_FirstExistingCandidate ==
    mr.pc = "done" =>
        LET order == LookupOrder(mr.specifier.abs)
        IN  IF ~mr.specifier.rel
            THEN mr.ret = Null /\ mr.stats = 0
            ELSE IF \E k \in 1..Len(order) : order[k] \in disk
            THEN \E k \in 1..Len(order) : FirstOnDisk(order, k) /\ mr.ret = order[k]
            ELSE mr.ret = Null /\ mr.stats = Len(order)

\* the file with an extension returned, after three looks, though a
\* directory index exists as well
C23_Witness ==
    /\ mr.pc = "done"
    /\ mr.specifier = SrcA
    /\ disk = {"A.mjs", "A/index.js"}
    /\ mr.ret = "A.mjs"
    /\ mr.stats = 3


(***************************************************************************)
(* What one transformCode call returns for a text, as a function of the    *)
(* text, the ImportMap, the targets and whether printSync throws           *)
(***************************************************************************)
\* the loop over the body: [newBody, hasChanges, result]
RECURSIVE RewriteBody(_, _, _)
RewriteBody(body, config, acc) ==
    IF body = <<>> THEN acc
    ELSE LET item == Head(body)
             transformed == TransformImportDeclaration(item, config, acc.result)
         IN  IF item.type = "ImportDeclaration" /\ transformed.changed
             THEN RewriteBody(Tail(body), config,
                    [newBody |-> acc.newBody \o transformed.imports,
                     hasChanges |-> TRUE,
                     result |-> transformed.result])
             ELSE RewriteBody(Tail(body), config,
                    [newBody |-> Append(acc.newBody, item),
                     hasChanges |-> acc.hasChanges,
                     result |-> IF item.type = "ImportDeclaration"
                                THEN transformed.result ELSE acc.result])

RewriteAlone(code, importMap, targetLibraries, throws) ==
    LET config == Config([importMap |-> importMap, targetLibraries |-> targetLibraries])
        walked == RewriteBody(ParseSync(code), config,
                    [newBody |-> <<>>, hasChanges |-> FALSE, result |-> NewResult(code)])
    IN  IF ParseSyncThrows(code) THEN NewResult(code)
        ELSE IF ~walked.hasChanges THEN walked.result
        ELSE IF throws THEN [walked.result EXCEPT !.transformed = FALSE]
        ELSE [walked.result EXCEPT !.code = PrintSync(walked.newBody),
                                   !.transformed = TRUE]

FileNamesOf(files) == {files[n].filename : n \in 1..Len(files)}

(***************************************************************************)
(* C24: transformFiles returns a Map whose keys are exactly the filenames  *)
(* of its input, and the result of each file is what one transformCode     *)
(* call on the text of that file alone returns with the same ImportMap and *)
(* targets, whatever the other files of the batch and their order; for an  *)
(* empty input the Map is empty.                                           *)
(***************************************************************************)
C24_BatchEqualsSingle ==
    tf.pc = "done" =>
        /\ DOMAIN tf.results = FileNamesOf(tf.files)
        /\ \A n \in 1..Len(tf.files) :
              tf.results[tf.files[n].filename] =
                  RewriteAlone(tf.files[n].code, tf.importMap, tf.targetLibraries,
                               tf.files[n].filename \in tf.threw)
        /\ tf.files = <<>> => tf.results = EmptyMap

\* a batch of two files: the first with a skipped import, the second
\* rewritten, its result without the skip entry of the first
C24_Witness ==
    /\ tf.pc = "done"
    /\ Len(tf.files) = 2
    /\ tf.results[tf.files[1].filename].skipped # <<>>
    /\ tf.results[tf.files[2].filename].transformed
    /\ tf.results[tf.files[2].filename].skipped = <<>>
    /\ tf.results[tf.files[2].filename].optimized # <<>>

(***************************************************************************)
(* The statements of one file, per kind, in textual order                  *)
(***************************************************************************)
NamedReExports(text) == SelectSeq(text, LAMBDA st : st.k = "reexp")

StarReExports(text) == SelectSeq(text, LAMBDA st : st.k = "star")

\* the names the lexer lists for the file: declared and re-exported by name
ListedNames(text) ==
    {text[n].names[1] : n \in {m \in 1..Len(text) : text[m].k \in {"decl", "reexp"}}}

\* the names of the named re-exports whose source resolves
ResolvingNames(text) ==
    {text[n].names[1] : n \in {m \in 1..Len(text) :
        text[m].k = "reexp" /\ ResolveModulePath(text[m].src) # Null}}

Gained(before, after) == {n \in DOMAIN after : n \notin DOMAIN before}

\* before, and every name of names that before leaves unbound bound to file
Extended(before, names, file) ==
    [n \in DOMAIN before \cup names |-> IF n \in DOMAIN before THEN before[n] ELSE file]

\* the frame has begun its star re-exports
InStars(fr) == fr.pc \in {"merge", "starparse"} \/ (fr.pc = "body" /\ fr.j > 1)

Merged(before, tempMap) ==
    [n \in DOMAIN before \cup DOMAIN tempMap |->
        IF n \in DOMAIN before THEN before[n] ELSE tempMap[n]]

ListedBy(p, n) ==
    {st \in UNION {{<<g, k>> : k \in 1..Len(fs[g])} : g \in visited[p]} :
        /\ \A m \in 1..Len(fs[st[1]]) : fs[st[1]][m].k # "bad"
        /\ fs[st[1]][st[2]].k \in {"decl", "reexp"}
        /\ fs[st[1]][st[2]].names[1] = n}

\* the files a statement may bind its name to: the resolved source of a
\* named re-export, else the file of the statement; and the file of the
\* statement when a visited star re-export resolves to it, for the second
\* parse of a star source binds every name the lexer lists
Offers(p, st) ==
    LET stmt == fs[st[1]][st[2]]
        resolvedSource == IF stmt.k = "reexp" THEN ResolveModulePath(stmt.src) ELSE Null
    IN  (IF resolvedSource = Null THEN {st[1]} ELSE {resolvedSource})
            \cup (IF StatementsTo(p, st[1], {"star"}) # {} THEN {st[1]} ELSE {})

C28_CheckAndMarkAtomic ==
    [][/\ \A q \in DOMAIN visited : visited[q] \subseteq visited'[q]
       /\ \A p \in Procs :
            status[p] \in {"running", "done"} =>
               LET stack == trav[p].stack
                   set   == visited[trav[p].ref]
                   fr    == stack[Len(stack)]
               IN  /\ trav[p].started = Cardinality(set)
                   /\ \A k \in 1..Len(stack) :
                         /\ stack[k].pc # "enter" => stack[k].file \in set
                         /\ k < Len(stack) => stack[k].pc # "enter"
                         /\ \A m \in 1..Len(stack) :
                               (m # k /\ stack[m].file = stack[k].file)
                                   => "enter" \in {stack[m].pc, stack[k].pc}
                   /\ (stack # <<>> /\ fr.pc = "enter" /\ trav'[p] # trav[p]) =>
                         IF fr.file \in set
                         THEN /\ visited'[trav[p].ref] = set
                              /\ trav'[p].stack = SubSeq(stack, 1, Len(stack) - 1)
                              /\ trav'[p].maps = trav[p].maps
                              /\ trav'[p].parsed = trav[p].parsed
                         ELSE /\ visited'[trav[p].ref] = set \cup {fr.file}
                              /\ Len(trav'[p].stack) = Len(stack)
                              /\ trav'[p].stack[Len(stack)].file = fr.file
                              /\ trav'[p].stack[Len(stack)].pc # "enter"
                              /\ trav'[p].parsed = trav[p].parsed
                              /\ trav[p].parsed[fr.file] = 0
                              /\ trav'[p].maps = trav[p].maps]_vars

\* a file visited through a named re-export and met again by the scratch
\* traversal of a star re-export: the scratch map comes back empty although
\* the file declares names, and the file has been parsed by one visit
C28_Witness ==
    \E p \in Procs :
        LET stack == trav[p].stack
            fr    == stack[Len(stack)]
        IN  /\ status[p] = "running"
            /\ stack # <<>>
            /\ fr.pc = "merge"
            /\ trav[p].maps[Len(trav[p].maps)] = EmptyMap
            /\ \E target \in TargetFiles(fs[fr.file], {"star"}) :
                  /\ target \in TargetFiles(fs[fr.file], {"reexp"})
                  /\ target \in visited[trav[p].ref]
                  /\ DeclaredNames(target) # {}
                  /\ trav[p].parsed[target] = 1
                  /\ \A k \in 1..Len(stack) : stack[k].file # target


(***************************************************************************)
(* C29: a transformCode call that returns transformed FALSE returns the    *)
(* input text as code.  The call returns FALSE on exactly three paths:     *)
(* parseSync threw, no import was replaced (hasChanges is false), or       *)
(* printSync threw; on each of them result.code is still the text the      *)
(* call was given, as it is at every point before printSync returns.       *)
(***************************************************************************)
C29_UntransformedReturnsInput ==
    /\ tc.pc \in {"start", "loop"} => tc.result.code = input.code
    /\ tc.pc \in {"done", "printfailed"} =>
          /\ output.transformed = FALSE => output.code = input.code
          /\ output.transformed = FALSE <=>
                \/ ParseSyncThrows(input.code)
                \/ ~tc.hasChanges
                \/ tc.pc = "printfailed"

\* a call that returned on the no-change path after it had examined and
\* skipped an import of a target package
C29_Witness ==
    /\ tc.pc = "done"
    /\ ~ParseSyncThrows(input.code)
    /\ ~tc.hasChanges
    /\ output.skipped # <<>>
    /\ output.transformed = FALSE
    /\ input.code # <<>>
    /\ output.code = input.code


\* the package a path of the ImportMap lies in
PackageOf(p) ==
    LET after == AfterBoundary(p)
    IN  Join(SubSeq(after, 1, NameLength(after)))

\* the named bindings of the text that are rewritten: <<statement, binding>>
RewrittenBindings ==
    {b \in UNION {{<<n, k>> : k \in 1..Len(NamedBindings(InputBody[n]))} :
                    n \in {m \in 1..Len(InputBody) : Splits(InputBody[m])}} :
        ResolvedBinding(NamedBindings(InputBody[b[1]])[b[2]])}

(***************************************************************************)
(* C30: the specifier a named binding is rewritten to is a function of the *)
(* imported name and the one ImportMap: the canonical specifier of the     *)
(* file the name is bound to, whatever target package the statement        *)
(* imports from.  Two bindings of the same imported name are rewritten to  *)
(* the same specifier even when their statements import from different     *)
(* packages, and a binding imported from one target package whose name is  *)
(* bound to a file of another is rewritten to a specifier of the other.    *)
(***************************************************************************)
C30_SpecifierByNameAlone ==
    Returned =>
        \A b \in RewrittenBindings :
            LET node == InputBody[b[1]]
                specifier == NamedBindings(node)[b[2]]
                bound == input.importMap[ImportedName(specifier)]
            IN  /\ Emitted(tc.newBody, specifier, CanonicalSpecifier(bound))
                /\ PackageOf(bound) # node.source.value
                       => ~Emitted(tc.newBody, specifier, node.source.value)

\* the name Input, bound to a file of the package other, imported once from
\* pkg and once from other: both bindings are emitted against other/Input
C30_Witness ==
    /\ Returned
    /\ "pkg" \in Targets(input)
    /\ "other" \in Targets(input)
    /\ "Input" \in DOMAIN input.importMap
    /\ PackageOf(input.importMap["Input"]) = "other"
    /\ \E b, c \in RewrittenBindings :
          /\ InputBody[b[1]].source.value = "pkg"
          /\ InputBody[c[1]].source.value = "other"
          /\ ImportedName(NamedBindings(InputBody[b[1]])[b[2]]) = "Input"
          /\ ImportedName(NamedBindings(InputBody[c[1]])[c[2]]) = "Input"
          /\ Emitted(tc.newBody, NamedBindings(InputBody[b[1]])[b[2]], "other/Input")
    /\ Len(tc.newBody) >= 3

====
